---- MODULE Spec2Model ----
(***************************************************************************)
(* Bi-temporal entity/attribute store of sqlite-performance: the generator *)
(* write paths (generate_dc_seed.py, append_dc_data.py) and the query      *)
(* executor (query_dc_benchmark.py).                                       *)
(*                                                                         *)
(* Spec      : generator runs, one step per SQL statement, chained through *)
(*             --input/--output database files.                            *)
(* SpecQuery : the query executor applied to stores built from entity      *)
(*             inserts (node_to_sql_inserts / workload_to_sql_inserts).    *)
(***************************************************************************)
EXTENDS Integers, Sequences, FiniteSets, TLC

(***************************************************************************)
(* Bounds of the model.                                                    *)
(***************************************************************************)
\* generator processes run one after the other
MaxRuns == 2
\* entities (payload rows) a database file may hold after a run
MaxEntities == 3
\* number of distinct values of the 12 hex digits kept from a UUID
IdSpace == 2
\* largest seed value passed with --seed
MaxSeed == 2
\* largest --batch-size
MaxBatch == 2
\* entity writes held by a database the query benchmark opens
MaxStored == 2
\* latest block of an entity write in such a database
MaxWriteBlock == 2
\* longest time to live, in blocks, of an entity write in such a database
MaxTtl == 2

(***************************************************************************)
(* Program constants.                                                      *)
(***************************************************************************)
NODE == "node"
WORKLOAD == "workload"
NodeCreator == "0x0000000000000000000000000000000000dc0001"
WorkloadCreator == "0x0000000000000000000000000000000000dc0002"
\* an argument left at its default None
None == "<None>"

\* cumulative distributions, probabilities in percent
RegionDistribution == << <<"eu-west", 40>>, <<"us-east", 75>>, <<"asia-pac", 100>> >>
VmTypeDistribution == << <<"cpu", 70>>, <<"gpu", 95>>, <<"gpu_large", 100>> >>
NodeStatusDistribution == << <<"available", 70>>, <<"busy", 95>>, <<"offline", 100>> >>
WorkloadStatusDistribution == << <<"pending", 15>>, <<"running", 95>>, <<"completed", 100>> >>
CpuCountDistribution == << <<4, 30>>, <<8, 60>>, <<16, 85>>, <<32, 100>> >>
RamGbDistribution == << <<16, 25>>, <<32, 55>>, <<64, 85>>, <<128, 100>> >>
AvailHoursDistribution == << <<1, 10>>, <<4, 30>>, <<8, 55>>, <<24, 80>>, <<168, 100>> >>
ReqCpuDistribution == << <<1, 40>>, <<2, 70>>, <<4, 90>>, <<8, 100>> >>
ReqRamDistribution == << <<4, 35>>, <<8, 65>>, <<16, 90>>, <<32, 100>> >>
MaxHoursDistribution == << <<1, 30>>, <<2, 55>>, <<4, 75>>, <<8, 90>>, <<24, 100>> >>
TtlBlocksDistribution == << << <<1800, 10800>>, 10>>, << <<21600, 302400>>, 70>>, << <<302400, 1209600>>, 100>> >>
PriceHourRange == <<50, 500>>

(***************************************************************************)
(* random.Random(<string>): a deterministic stream per seed string.  The   *)
(* stream of the generator seeded with "<seed>:<tag>:<dc>:<num>" is        *)
(* modelled by a fixed mixing function; Raw is its i-th output.            *)
(***************************************************************************)
TagOf(kind) == IF kind = NODE THEN 1 ELSE IF kind = WORKLOAD THEN 2 ELSE 3

Raw(seed, kind, dc, num, i) ==
    (seed * 7919 + TagOf(kind) * 10007 + dc * 12553 + num * 15485 + i * 32452) % 1000003

\* rng.random(), in percent
Random100(seed, kind, dc, num, i) == Raw(seed, kind, dc, num, i) % 100

\* rng.randint(lo, hi)
RandInt(seed, kind, dc, num, i, lo, hi) == lo + (Raw(seed, kind, dc, num, i) % (hi - lo + 1))

RECURSIVE SampleFrom(_, _, _)
SampleFrom(dist, r, i) ==
    IF i >= Len(dist) THEN dist[Len(dist)][1]
    ELSE IF r < dist[i][2] THEN dist[i][1]
    ELSE SampleFrom(dist, r, i + 1)

sample_from_distribution(dist, r) == SampleFrom(dist, r, 1)

\* one random() picks the range, one randint() the value
sample_ttl_blocks(seed, kind, dc, num, i) ==
    LET range == sample_from_distribution(TtlBlocksDistribution, Random100(seed, kind, dc, num, i))
    IN RandInt(seed, kind, dc, num, i + 1, range[1], range[2])

(***************************************************************************)
(* ID generation.                                                          *)
(***************************************************************************)
Pad(n, w) ==
    LET s == ToString(n)
    IN IF Len(s) >= w THEN s ELSE SubSeq("000000000000", 1, w - Len(s)) \o s

make_dc_id(dc_num) == "dc_" \o Pad(dc_num, 2)

\* generate_dc_seed.py: sequential ids
seed_make_node_id(dc_num, node_num) == "node_" \o Pad(dc_num, 2) \o "_" \o Pad(node_num, 6)

seed_make_workload_id(dc_num, workload_num) == "wl_" \o Pad(dc_num, 2) \o "_" \o Pad(workload_num, 6)

\* the first 12 hex digits of the UUID drawn from the seeded generator
Uuid12(seed, kind, dc_num, num) == Pad(Raw(seed, kind, dc_num, num, 0) % IdSpace, 12)

\* append_dc_data.py: ids from a deterministic UUID, cut to 12 hex digits
make_node_id(dc_num, node_num, seed) == "node_" \o Uuid12(seed, NODE, dc_num, node_num)

make_workload_id(dc_num, workload_num, seed) == "wl_" \o Uuid12(seed, WORKLOAD, dc_num, workload_num)

\* 32 bytes drawn from random.Random("<seed>:<id_string>"): one key per seed string
make_entity_key(id_string, seed) == ToString(seed) \o ":" \o id_string

workload_to_node_num(workload_num, nodes_per_dc) == ((workload_num - 1) % nodes_per_dc) + 1

\* the payload bytes, drawn last from the entity's generator
PayloadOf(seed, kind, dc_num, num) == "payload:" \o ToString(seed) \o ":" \o kind \o ":" \o ToString(num)

(***************************************************************************)
(* Entity creation.  The draws of an entity's generator are consumed in    *)
(* source order; a status passed by the caller skips the status draw.      *)
(***************************************************************************)
create_node(dc_num, node_num, block, seed, status, node_id) ==
    LET k == IF status = None THEN 1 ELSE 0
        R(i) == Random100(seed, NODE, dc_num, node_num, i)
    IN [ kind |-> NODE,
         entity_key |-> make_entity_key(node_id, seed),
         dc_id |-> make_dc_id(dc_num),
         node_id |-> node_id,
         region |-> sample_from_distribution(RegionDistribution, R(1)),
         status |-> IF status = None
                    THEN sample_from_distribution(NodeStatusDistribution, R(2))
                    ELSE status,
         vm_type |-> sample_from_distribution(VmTypeDistribution, R(2 + k)),
         cpu_count |-> sample_from_distribution(CpuCountDistribution, R(3 + k)),
         ram_gb |-> sample_from_distribution(RamGbDistribution, R(4 + k)),
         price_hour |-> RandInt(seed, NODE, dc_num, node_num, 5 + k,
                                PriceHourRange[1], PriceHourRange[2]),
         avail_hours |-> sample_from_distribution(AvailHoursDistribution, R(6 + k)),
         payload |-> PayloadOf(seed, NODE, dc_num, node_num),
         block |-> block,
         ttl |-> sample_ttl_blocks(seed, NODE, dc_num, node_num, 7 + k),
         tx_index |-> 0, op_index |-> 0, sequence |-> 0 ]

create_workload(dc_num, workload_num, block, seed, status, assigned_node, workload_id, running_node_id) ==
    LET k == IF status = None THEN 1 ELSE 0
        R(i) == Random100(seed, WORKLOAD, dc_num, workload_num, i)
        st == IF status = None
              THEN sample_from_distribution(WorkloadStatusDistribution, R(1))
              ELSE status
    IN [ kind |-> WORKLOAD,
         entity_key |-> make_entity_key(workload_id, seed),
         dc_id |-> make_dc_id(dc_num),
         workload_id |-> workload_id,
         status |-> st,
         assigned_node |-> IF assigned_node # None THEN assigned_node
                           ELSE IF st = "running" THEN running_node_id
                           ELSE "",
         region |-> sample_from_distribution(RegionDistribution, R(1 + k)),
         vm_type |-> sample_from_distribution(VmTypeDistribution, R(2 + k)),
         req_cpu |-> sample_from_distribution(ReqCpuDistribution, R(3 + k)),
         req_ram |-> sample_from_distribution(ReqRamDistribution, R(4 + k)),
         max_hours |-> sample_from_distribution(MaxHoursDistribution, R(5 + k)),
         payload |-> PayloadOf(seed, WORKLOAD, dc_num, workload_num),
         block |-> block,
         ttl |-> sample_ttl_blocks(seed, WORKLOAD, dc_num, workload_num, 6 + k),
         tx_index |-> 0, op_index |-> 0, sequence |-> 0 ]

(***************************************************************************)
(* SQL insert helpers: the statements of one entity, in execution order.   *)
(***************************************************************************)
AttrRow(entity_key, from_block, to_block, key, value) ==
    [ entity_key |-> entity_key, from_block |-> from_block, to_block |-> to_block,
      key |-> key, value |-> value ]

InsertsOf(entity_key, block, expires_at_block, string_attrs, numeric_attrs, payload) ==
    [ i \in 1..Len(string_attrs) |->
        [ table |-> "string_attributes",
          row |-> AttrRow(entity_key, block, expires_at_block,
                          string_attrs[i][1], string_attrs[i][2]) ] ]
    \o
    [ i \in 1..Len(numeric_attrs) |->
        [ table |-> "numeric_attributes",
          row |-> AttrRow(entity_key, block, expires_at_block,
                          numeric_attrs[i][1], numeric_attrs[i][2]) ] ]
    \o
    << [ table |-> "payloads",
         row |-> [ entity_key |-> entity_key, from_block |-> block,
                   to_block |-> expires_at_block, payload |-> payload,
                   content_type |-> "application/octet-stream",
                   string_attributes |-> string_attrs,
                   numeric_attributes |-> numeric_attrs ] ] >>

node_to_sql_inserts(node, creator_address) ==
    LET expires_at_block == node.block + node.ttl
        string_attrs ==
            << <<"dc_id", node.dc_id>>, <<"type", NODE>>, <<"node_id", node.node_id>>,
               <<"region", node.region>>, <<"status", node.status>>,
               <<"vm_type", node.vm_type>>,
               <<"$creator", creator_address>>, <<"$key", "0x" \o node.entity_key>>,
               <<"$owner", creator_address>> >>
        numeric_attrs ==
            << <<"cpu_count", node.cpu_count>>, <<"ram_gb", node.ram_gb>>,
               <<"price_hour", node.price_hour>>, <<"avail_hours", node.avail_hours>>,
               <<"$createdAtBlock", node.block>>, <<"$expiration", expires_at_block>>,
               <<"$opIndex", node.op_index>>, <<"$sequence", node.sequence>>,
               <<"$txIndex", node.tx_index>> >>
    IN InsertsOf(node.entity_key, node.block, expires_at_block,
                 string_attrs, numeric_attrs, node.payload)

workload_to_sql_inserts(workload, creator_address) ==
    LET expires_at_block == workload.block + workload.ttl
        string_attrs ==
            << <<"dc_id", workload.dc_id>>, <<"type", WORKLOAD>>,
               <<"workload_id", workload.workload_id>>, <<"status", workload.status>>,
               <<"assigned_node", workload.assigned_node>>, <<"region", workload.region>>,
               <<"vm_type", workload.vm_type>>,
               <<"$creator", creator_address>>, <<"$key", "0x" \o workload.entity_key>>,
               <<"$owner", creator_address>> >>
        numeric_attrs ==
            << <<"req_cpu", workload.req_cpu>>, <<"req_ram", workload.req_ram>>,
               <<"max_hours", workload.max_hours>>,
               <<"$createdAtBlock", workload.block>>, <<"$expiration", expires_at_block>>,
               <<"$opIndex", workload.op_index>>, <<"$sequence", workload.sequence>>,
               <<"$txIndex", workload.tx_index>> >>
    IN InsertsOf(workload.entity_key, workload.block, expires_at_block,
                 string_attrs, numeric_attrs, workload.payload)

EntityInserts(e, creator_address) ==
    IF e.kind = NODE THEN node_to_sql_inserts(e, creator_address)
    ELSE workload_to_sql_inserts(e, creator_address)

(***************************************************************************)
(* Generators: the entities of a run, in insertion order.                  *)
(***************************************************************************)
\* generate_dc_seed.generate_nodes: g counts the nodes yielded before this one
generate_nodes(num_datacenters, nodes_per_dc, nodes_per_block, start_block, seed) ==
    [ g \in 1..(num_datacenters * nodes_per_dc) |->
        LET dc_num == ((g - 1) \div nodes_per_dc) + 1
            node_num == ((g - 1) % nodes_per_dc) + 1
        IN create_node(dc_num, node_num, start_block + ((g - 1) \div nodes_per_block),
                       seed, None, seed_make_node_id(dc_num, node_num)) ]

\* generate_dc_seed.generate_workloads; workloads_per_dc = int(nodes_per_dc * ratio)
generate_workloads(num_datacenters, nodes_per_dc, workloads_per_dc, workloads_per_block, start_block, seed) ==
    [ g \in 1..(num_datacenters * workloads_per_dc) |->
        LET dc_num == ((g - 1) \div workloads_per_dc) + 1
            workload_num == ((g - 1) % workloads_per_dc) + 1
        IN create_workload(dc_num, workload_num,
                           start_block + ((g - 1) \div workloads_per_block), seed, None, None,
                           seed_make_workload_id(dc_num, workload_num),
                           seed_make_node_id(dc_num,
                               workload_to_node_num(workload_num, nodes_per_dc))) ]

\* the draw of random.Random("<seed>:blocks") made for the node_counter-th node
is_busy(seed, node_counter, percentage_assigned) ==
    Random100(seed, "blocks", 0, 0, node_counter) < percentage_assigned

\* append_dc_data.generate_blocks: one BlockData per block, dc_num = 1
generate_blocks(num_blocks, nodes_per_block, workloads_per_node, percentage_assigned, start_block, seed) ==
    [ b \in 1..num_blocks |->
        LET current_block == start_block + (b - 1)
            NodeAt(j) ==
                LET node_counter == (b - 1) * nodes_per_block + j
                IN create_node(1, node_counter, current_block, seed,
                               IF is_busy(seed, node_counter, percentage_assigned)
                               THEN "busy" ELSE "available",
                               make_node_id(1, node_counter, seed))
            WorkloadAt(w) ==
                LET j == ((w - 1) \div workloads_per_node) + 1
                    wl_idx == (w - 1) % workloads_per_node
                    node_counter == (b - 1) * nodes_per_block + j
                    workload_counter == (node_counter - 1) * workloads_per_node + wl_idx + 1
                    assigned == is_busy(seed, node_counter, percentage_assigned) /\ wl_idx = 0
                IN create_workload(1, workload_counter, current_block, seed,
                                   IF assigned THEN "running" ELSE "pending",
                                   IF assigned THEN make_node_id(1, node_counter, seed) ELSE "",
                                   make_workload_id(1, workload_counter, seed), None)
        IN [ block_num |-> current_block,
             nodes |-> [ j \in 1..nodes_per_block |-> NodeAt(j) ],
             workloads |-> [ w \in 1..(nodes_per_block * workloads_per_node) |-> WorkloadAt(w) ] ] ]

(***************************************************************************)
(* The statements a run executes on its connection, in order.              *)
(***************************************************************************)
Execute(ins) == [ op |-> "execute", table |-> ins.table, row |-> ins.row ]
Commit == << [ op |-> "commit" ] >>
SetLastBlock(block) == << [ op |-> "last_block", block |-> block ] >>

RECURSIVE Flatten(_)
Flatten(seqs) == IF seqs = << >> THEN << >> ELSE Head(seqs) \o Flatten(Tail(seqs))

\* a connection in autocommit mode: every insert is its own transaction
EntityStatementsAutocommit(e, creator_address) ==
    LET ins == EntityInserts(e, creator_address)
    IN Flatten([ i \in 1..Len(ins) |-> << Execute(ins[i]) >> \o Commit ])

EntityStatements(e, creator_address) ==
    LET ins == EntityInserts(e, creator_address)
    IN [ i \in 1..Len(ins) |-> Execute(ins[i]) ]

\* when the commit test after the count-th unit of a loop passes
CommitDue(count, batch_size) == count % batch_size = 0

\* append_dc_data.append_blocks: commit every batch_size blocks, and at the end
append_blocks(num_blocks, nodes_per_block, workloads_per_node, percentage_assigned, start_block, seed, batch_size) ==
    LET blocks == generate_blocks(num_blocks, nodes_per_block, workloads_per_node,
                                  percentage_assigned, start_block, seed)
        BlockStatements(b) ==
            Flatten([ j \in 1..Len(blocks[b].nodes) |->
                        EntityStatements(blocks[b].nodes[j], NodeCreator) ])
            \o Flatten([ w \in 1..Len(blocks[b].workloads) |->
                        EntityStatements(blocks[b].workloads[w], NodeCreator) ])
            \o (IF CommitDue(b, batch_size) THEN Commit ELSE << >>)
    IN Flatten([ b \in 1..num_blocks |-> BlockStatements(b) ]) \o Commit

\* the loop shared by generate_all_nodes and generate_all_workloads:
\* commit every batch_size entities, and at the end
generate_all(entities, creator_address, batch_size) ==
    Flatten([ c \in 1..Len(entities) |->
                EntityStatements(entities[c], creator_address)
                \o (IF CommitDue(c, batch_size) THEN Commit ELSE << >>) ])
    \o Commit

generate_all_nodes(a, start_block) ==
    generate_all(generate_nodes(a.datacenters, a.nodes_per_dc, a.nodes_per_block,
                                start_block, a.seed),
                 NodeCreator, a.batch_size)

\* int(nodes_per_dc * workloads_per_node); a.wpn5 is five times --workloads-per-node
workloads_per_dc(a) == (a.nodes_per_dc * a.wpn5) \div 5

generate_all_workloads(a, start_block) ==
    generate_all(generate_workloads(a.datacenters, a.nodes_per_dc, workloads_per_dc(a),
                                    a.workloads_per_block, start_block, a.seed),
                 WorkloadCreator, a.batch_size)

\* append_dc_data.main after init_database: final_block is the last block generated
append_main(a, start_block) ==
    append_blocks(a.num_blocks, a.nodes_per_block, a.workloads_per_node,
                  a.percentage_assigned, start_block, a.seed, a.batch_size)
    \o SetLastBlock(IF a.num_blocks = 0 THEN start_block ELSE start_block + a.num_blocks - 1)
    \o Commit

\* generate_dc_seed.main after init_database: last_block is set to start_block
seed_main(a, start_block) ==
    generate_all_nodes(a, start_block)
    \o generate_all_workloads(a, start_block)
    \o SetLastBlock(start_block)
    \o Commit

Program(a, start_block) ==
    IF a.gen = "append" THEN append_main(a, start_block) ELSE seed_main(a, start_block)

(***************************************************************************)
(* State.                                                                  *)
(***************************************************************************)
VARIABLES
    files,      \* path -> the committed content of the database file
    tx,         \* rows written on the open connection and not yet committed
    run,        \* the running generator process: arguments, start block, position
    nruns,      \* generator processes started so far
    outcome,    \* how the last generator process ended
    lost,       \* what the last exception discarded: "none", "whole" entities, a "partial" one
    result,     \* what the last QueryExecutor.execute call returned and fetched
    benchmark,  \* the running query benchmark: its current block and result limits
    locust,     \* the Locust run: its users and the requests they have sent
    eva         \* the demo database of db/eva.py and the calls made on its connection

vars == << files, tx, run, nruns, outcome, lost, result, benchmark, locust, eva >>

Paths == {"a.db", "b.db"}

Tables == {"string_attributes", "numeric_attributes", "payloads"}

\* SCHEMA_TABLES_SQL on a new file: the four tables, empty
EmptyDb ==
    [ exists |-> TRUE, string_attributes |-> {}, numeric_attributes |-> {},
      payloads |-> {}, last_block |-> << >> ]

NoFile == [ EmptyDb EXCEPT !.exists = FALSE ]

NoTx == [ string_attributes |-> {}, numeric_attributes |-> {}, payloads |-> {},
          last_block |-> << >> ]

\* what the connection reads: the file plus its own uncommitted writes
ConnView(db, t) ==
    [ exists |-> db.exists,
      string_attributes |-> db.string_attributes \cup t.string_attributes,
      numeric_attributes |-> db.numeric_attributes \cup t.numeric_attributes,
      payloads |-> db.payloads \cup t.payloads,
      last_block |-> IF t.last_block # << >> THEN t.last_block ELSE db.last_block ]

\* PRIMARY KEY (entity_key, key, from_block), and (entity_key, from_block) for payloads
SamePrimaryKey(table, r, row) ==
    /\ r.entity_key = row.entity_key
    /\ r.from_block = row.from_block
    /\ (table # "payloads" => r.key = row.key)

\* tables created without their PRIMARY KEY clause
NoPrimaryKey(db, table, row) == FALSE

PrimaryKeyTaken(db, table, row) == \E r \in db[table] : SamePrimaryKey(table, r, row)

\* a maximum taken without looking at the rows
get_max_block_of_nothing(db) == 0

get_max_block(db) ==
    IF db.string_attributes = {} THEN 0
    ELSE CHOOSE m \in { r.from_block : r \in db.string_attributes } :
            \A r \in db.string_attributes : r.from_block <= m

\* os.remove(db_path); then a copy of the input file if it exists, else a new schema
init_database(fs, db_path, input_db) ==
    LET removed == [ fs EXCEPT ![db_path] = NoFile ]
    IN IF input_db # None /\ removed[input_db].exists
       THEN [ removed EXCEPT ![db_path] = removed[input_db] ]
       ELSE [ removed EXCEPT ![db_path] = EmptyDb ]

(***************************************************************************)
(* Command lines.                                                          *)
(***************************************************************************)
Seeds == 1..MaxSeed

DEFAULT_NODE_UPDATES_PER_BLOCK == 60
DEFAULT_WORKLOAD_UPDATES_PER_BLOCK == 600

\* --percentage-assigned, in percent (default 0.8)
DefaultPercentageAssigned == 80

AppendArgs ==
    [ gen : {"append"}, seed : Seeds, input : Paths \cup {None}, output : Paths,
      batch_size : 1..MaxBatch,
      num_blocks : 1..MaxEntities, nodes_per_block : 0..MaxEntities,
      workloads_per_node : 0..1, percentage_assigned : {DefaultPercentageAssigned},
      datacenters : {0}, nodes_per_dc : {0}, wpn5 : {0}, workloads_per_block : {0} ]

\* wpn5 is five times --workloads-per-node (0.2 to 10)
SeedArgs ==
    [ gen : {"seed"}, seed : Seeds, input : Paths \cup {None}, output : Paths,
      batch_size : 1..MaxBatch,
      num_blocks : {0}, nodes_per_block : {1, DEFAULT_NODE_UPDATES_PER_BLOCK},
      workloads_per_node : {0}, percentage_assigned : {0},
      datacenters : {1}, nodes_per_dc : 1..MaxEntities, wpn5 : {1, 5},
      workloads_per_block : {1, DEFAULT_WORKLOAD_UPDATES_PER_BLOCK} ]

TotalEntities(a) ==
    IF a.gen = "append"
    THEN a.num_blocks * a.nodes_per_block * (1 + a.workloads_per_node)
    ELSE a.datacenters * (a.nodes_per_dc + workloads_per_dc(a))

\* no query has been executed
NoResult == [ query_type |-> None ]

\* query_dc_benchmark is not running
NoBenchmark == [ running |-> FALSE ]

\* no locustfile is running
NoLocust == [ file |-> None ]

\* no EVA schema has been created
NoEva == [ schema |-> FALSE ]

\* chained_from is the last_block of the --input file when the process started
Idle ==
    [ active |-> FALSE, gen |-> None, output |-> None, chained_from |-> << >>,
      start_block |-> 0, todo |-> << >> ]

Init ==
    /\ files = [ p \in Paths |-> NoFile ]
    /\ tx = NoTx
    /\ run = Idle
    /\ nruns = 0
    /\ outcome = "none"
    /\ lost = "none"
    /\ result = NoResult
    /\ locust = NoLocust
    /\ eva = NoEva
    /\ benchmark = NoBenchmark

(***************************************************************************)
(* Actions.                                                                *)
(***************************************************************************)
\* main up to the first statement: init_database, get_max_block(conn) + 1
Start(a) ==
    /\ ~run.active
    /\ nruns < MaxRuns
    /\ LET fs == init_database(files, a.output, a.input)
           start_block == get_max_block(fs[a.output]) + 1
       IN /\ Cardinality(fs[a.output].payloads) + TotalEntities(a) <= MaxEntities
          /\ files' = fs
          /\ run' = [ active |-> TRUE, gen |-> a.gen, output |-> a.output,
                      chained_from |-> IF a.input = None THEN << >>
                                       ELSE files[a.input].last_block,
                      start_block |-> start_block, todo |-> Program(a, start_block) ]
    /\ tx' = NoTx
    /\ nruns' = nruns + 1
    /\ outcome' = "running"
    /\ lost' = "none"
    /\ UNCHANGED << result, benchmark, locust, eva >>

StartAppend == \E a \in AppendArgs : Start(a)

StartSeed == \E a \in SeedArgs : Start(a)

Statement == Head(run.todo)

\* the payload row is the last insert of an entity
PartialEntity(t) ==
    \E r \in t.string_attributes \cup t.numeric_attributes :
        ~ \E q \in t.payloads : q.entity_key = r.entity_key /\ q.from_block = r.from_block

AtStatement(op) ==
    /\ run.active
    /\ run.todo # << >>
    /\ Statement.op = op

\* an exception leaves main: the process ends and the open transaction is lost
Raise(error) ==
    /\ tx' = NoTx
    /\ run' = Idle
    /\ outcome' = error
    /\ lost' = IF PartialEntity(tx) THEN "partial" ELSE "whole"
    /\ UNCHANGED << files, nruns, result, benchmark, locust, eva >>

Advance == run' = [ run EXCEPT !.todo = Tail(@) ]

\* cursor.execute(sql, params) of an INSERT
ExecuteInsert ==
    /\ AtStatement("execute")
    /\ LET st == Statement
       IN IF PrimaryKeyTaken(ConnView(files[run.output], tx), st.table, st.row)
          THEN Raise("IntegrityError")
          ELSE /\ tx' = [ tx EXCEPT ![st.table] = @ \cup {st.row} ]
               /\ Advance
               /\ UNCHANGED << files, nruns, outcome, lost, result, benchmark, locust, eva >>

\* cursor.execute fails in the storage engine (disk full, I/O error)
ExecuteFails ==
    /\ AtStatement("execute")
    /\ Raise("OperationalError")

\* conn.commit()
DoCommit ==
    /\ AtStatement("commit")
    /\ files' = [ files EXCEPT ![run.output] = ConnView(@, tx) ]
    /\ tx' = NoTx
    /\ Advance
    /\ UNCHANGED << nruns, outcome, lost, result, benchmark, locust, eva >>

\* INSERT OR REPLACE INTO last_block (id, block) VALUES (1, ?)
UpdateLastBlock ==
    /\ AtStatement("last_block")
    /\ tx' = [ tx EXCEPT !.last_block = << Statement.block >> ]
    /\ Advance
    /\ UNCHANGED << files, nruns, outcome, lost, result, benchmark, locust, eva >>

\* conn.close() and the end of main
Finish ==
    /\ run.active
    /\ run.todo = << >>
    /\ run' = Idle
    /\ tx' = NoTx
    /\ outcome' = "ok"
    /\ UNCHANGED << files, nruns, lost, result, benchmark, locust, eva >>

Next ==
    \/ StartAppend
    \/ StartSeed
    \/ ExecuteInsert
    \/ ExecuteFails
    \/ DoCommit
    \/ UpdateLastBlock
    \/ Finish

Spec == Init /\ [][Next]_vars

(***************************************************************************)
(* Properties of the generator write paths (checked under Spec).           *)
(***************************************************************************)
AttrTables == {"string_attributes", "numeric_attributes"}

VisibleAt(r, B) == r.from_block <= B /\ r.to_block > B

FactsOf(db, table, E, K) == { r \in db[table] : r.entity_key = E /\ r.key = K }

\* C1: in every committed store, for every entity key E, attribute key K and
\* block B, at most one row of string_attributes (and of numeric_attributes)
\* for (E, K) is visible at B (from_block <= B < to_block).
C1_AtMostOneVisibleRow ==
    \A p \in Paths : \A table \in AttrTables :
        \A r \in files[p][table] :
            \A B \in { q.from_block : q \in files[p][table] } :
                Cardinality({ q \in FactsOf(files[p], table, r.entity_key, r.key) :
                                VisibleAt(q, B) }) <= 1

LatestWrite(rows) == CHOOSE b \in { r.from_block : r \in rows } : \A r \in rows : r.from_block <= b

\* C2: a write at block b closes the open row of the same (entity_key, key) at b
\* before inserting the new row: every earlier row of the pair ends at or before
\* the next write, and exactly one row of the pair is visible at its latest write.
C2_WriteClosesOpenRow ==
    \A p \in Paths : \A table \in AttrTables :
        \A r \in files[p][table] :
            LET rows == FactsOf(files[p], table, r.entity_key, r.key)
            IN /\ \A q \in rows : q.from_block < r.from_block => q.to_block <= r.from_block
               /\ Cardinality({ q \in rows : VisibleAt(q, LatestWrite(rows)) }) = 1

Range(seq) == { seq[i] : i \in 1..Len(seq) }

\* the rows of one entity write found in a committed store, against the attribute
\* snapshot its payload row carries
WriteComplete(db, E, b) ==
    \E P \in db.payloads :
        /\ P.entity_key = E /\ P.from_block = b
        /\ { <<r.key, r.value>> : r \in { q \in db.string_attributes :
                                            q.entity_key = E /\ q.from_block = b } }
             = Range(P.string_attributes)
        /\ { <<r.key, r.value>> : r \in { q \in db.numeric_attributes :
                                            q.entity_key = E /\ q.from_block = b } }
             = Range(P.numeric_attributes)

\* C3: entity writes are atomic: whatever has been committed, and whatever was
\* lost when an insert raised, every entity write present in a committed store
\* is there with all its string rows, numeric rows and its payload row.
C3_EntityWritesAtomic ==
    \A p \in Paths : \A table \in Tables :
        \A r \in files[p][table] : WriteComplete(files[p], r.entity_key, r.from_block)

\* a failed insert in the middle of an entity, after an earlier commit of the run
C3_Witness ==
    /\ outcome = "OperationalError"
    /\ lost = "partial"
    /\ \E p \in Paths : files[p].payloads # {}

\* the insert about to be executed has the primary key of a row the connection sees
DuplicateWrite ==
    /\ run.active
    /\ run.todo # << >>
    /\ Head(run.todo).op = "execute"
    /\ LET st == Head(run.todo)
           seen == files[run.output][st.table] \cup tx[st.table]
       IN \E r \in seen :
            /\ r.entity_key = st.row.entity_key
            /\ r.from_block = st.row.from_block
            /\ (st.table # "payloads" => r.key = st.row.key)

\* C5: an insert whose (entity_key, key, from_block) is already stored is rejected
\* with an error that ends the run, and the committed store stays as it was: the
\* rows written since the last commit are discarded with the transaction.
C5_DuplicateWriteRejected ==
    [][ DuplicateWrite =>
            /\ outcome' \in {"IntegrityError", "OperationalError"}
            /\ files' = files
            /\ tx' = NoTx
            /\ ~run'.active ]_vars

\* a run ended by the primary-key violation, uncommitted rows of the block lost
C5_Witness == outcome = "IntegrityError" /\ lost = "whole"

(***************************************************************************)
(* query_dc_benchmark: parameters, and the QueryExecutor methods.  A method *)
(* is the set of results its SQL statements can produce on a database: the *)
(* order of rows that tie under ORDER BY, and which rows LIMIT keeps when   *)
(* there is no ORDER BY, are left to the engine.                            *)
(***************************************************************************)
POINT_BY_ID == "point_by_id"
POINT_BY_KEY == "point_by_key"
POINT_MISS == "point_miss"
NODE_FILTER == "node_filter"
WORKLOAD_SIMPLE == "workload_simple"
WORKLOAD_SPECIFIC == "workload_specific"

REGIONS == {"eu-west", "us-east", "asia-pac"}
VM_TYPES == {"cpu", "gpu", "gpu_large"}
DEFAULT_NODE_LIMIT == 100
DEFAULT_WORKLOAD_LIMIT == 100

QueryParams(current_block) ==
    [ current_block |-> current_block, entity_id |-> None, entity_key |-> None,
      region |-> None, vm_type |-> None, min_cpu |-> None, min_ram |-> None,
      min_hours |-> None, max_price |-> None ]

\* the block clause with its upper end closed: from_block <= ? AND to_block >= ?
valid_at_closed(r, current_block) == r.from_block <= current_block /\ r.to_block >= current_block

\* from_block <= ? AND to_block > ?
valid_at(r, current_block) == r.from_block <= current_block /\ r.to_block > current_block

\* QueryGenerator._load_sample_ids (fewer than SAMPLE_SIZE_IDS values stored)
load_sample_ids(db, id_key, current_block) ==
    { r.value : r \in { q \in db.string_attributes :
                            q.key = id_key /\ valid_at(q, current_block) } }

\* QueryGenerator._load_sample_keys
load_sample_keys(db, current_block) ==
    { r.entity_key : r \in { q \in db.payloads : valid_at(q, current_block) } }

\* QueryGenerator.generate_random_uuid
generate_random_uuid == { "node_" \o Pad(n, 12) : n \in 0..(IdSpace - 1) }


\* the draws of generate_params for a node_filter kept here: every clause of the
\* filter is drawn on both sides of the stored values, one clause at a time
NodeFilterBase ==
    [ region |-> "eu-west", vm_type |-> "cpu", min_cpu |-> 4, min_ram |-> 16,
      min_hours |-> 4, max_price |-> 200 ]

NodeFilterChoices ==
    { NodeFilterBase,
      [ NodeFilterBase EXCEPT !.region = "us-east" ],
      [ NodeFilterBase EXCEPT !.vm_type = "gpu" ],
      [ NodeFilterBase EXCEPT !.min_cpu = 8 ],
      [ NodeFilterBase EXCEPT !.min_ram = 32 ],
      [ NodeFilterBase EXCEPT !.min_hours = 8 ],
      [ NodeFilterBase EXCEPT !.max_price = 100 ] }

WorkloadFilterBase == [ region |-> "eu-west", vm_type |-> "cpu" ]

WorkloadFilterChoices ==
    { WorkloadFilterBase,
      [ WorkloadFilterBase EXCEPT !.region = "us-east" ],
      [ WorkloadFilterBase EXCEPT !.vm_type = "gpu" ] }

\* QueryGenerator.generate_params: the parameter records it can return
generate_params(db, query_type, current_block) ==
    LET params == QueryParams(current_block)
        node_ids == load_sample_ids(db, "node_id", current_block)
        workload_ids == load_sample_ids(db, "workload_id", current_block)
        entity_keys == load_sample_keys(db, current_block)
    IN CASE query_type = POINT_BY_ID ->
              IF node_ids \cup workload_ids = {} THEN { params }
              ELSE { [ params EXCEPT !.entity_id = id ] : id \in node_ids \cup workload_ids }
         [] query_type = POINT_BY_KEY ->
              IF entity_keys = {} THEN { params }
              ELSE { [ params EXCEPT !.entity_key = k ] : k \in entity_keys }
         [] query_type = POINT_MISS ->
              { [ params EXCEPT !.entity_id = id ] : id \in generate_random_uuid }
         [] query_type = NODE_FILTER ->
              { [ params EXCEPT !.region = c.region, !.vm_type = c.vm_type,
                                !.min_cpu = c.min_cpu, !.min_ram = c.min_ram,
                                !.min_hours = c.min_hours, !.max_price = c.max_price ] :
                  c \in NodeFilterChoices }
         [] query_type = WORKLOAD_SIMPLE -> { params }
         [] query_type = WORKLOAD_SPECIFIC ->
              { [ params EXCEPT !.region = c.region, !.vm_type = c.vm_type ] :
                  c \in WorkloadFilterChoices }

QueryResult(query_type, row_count, success, error) ==
    [ query_type |-> query_type, row_count |-> row_count, success |-> success,
      error |-> error,
      rows |-> << >>, str_attrs |-> {}, num_attrs |-> {}, payload |-> {} ]

\* SELECT ... WHERE entity_key = ? AND from_block <= ? AND to_block > ?
select_by_entity_key(db, table, entity_key, current_block) ==
    { r \in db[table] : r.entity_key = entity_key /\ valid_at(r, current_block) }

\* ORDER BY from_block DESC LIMIT 1, fetchone(): the rows the engine can return
latest_one(rows) ==
    { r \in rows : \A q \in rows : q.from_block <= r.from_block }

\* step 2 of the point lookups: the three SELECTs and the row count
fetch_entity(query_type, db, entity_key, current_block) ==
    LET str_attrs == select_by_entity_key(db, "string_attributes", entity_key, current_block)
        num_attrs == select_by_entity_key(db, "numeric_attributes", entity_key, current_block)
        payloads == select_by_entity_key(db, "payloads", entity_key, current_block)
        found(payload) ==
            [ QueryResult(query_type,
                          Cardinality(str_attrs) + Cardinality(num_attrs)
                              + (IF payload = {} THEN 0 ELSE 1),
                          TRUE, None)
              EXCEPT !.str_attrs = str_attrs, !.num_attrs = num_attrs, !.payload = payload ]
    IN IF payloads = {} THEN { found({}) }
       ELSE { found({P}) : P \in latest_one(payloads) }

startswith(s, prefix) ==
    Len(s) >= Len(prefix) /\ SubSeq(s, 1, Len(prefix)) = prefix

\* step 1 without its block clause
resolve_entity_id_any_block(db, id_key, entity_id, current_block) ==
    { r.entity_key :
        r \in latest_one({ q \in db.string_attributes :
                             q.key = id_key /\ q.value = entity_id }) }

\* step 1 of _execute_point_by_id: the entity keys fetchone() can return
resolve_entity_id(db, id_key, entity_id, current_block) ==
    { r.entity_key :
        r \in latest_one({ q \in db.string_attributes :
                             /\ q.key = id_key /\ q.value = entity_id
                             /\ valid_at(q, current_block) }) }

execute_point_by_id(db, params) ==
    LET id_key == IF params.entity_id # None /\ startswith(params.entity_id, "node_")
                  THEN "node_id" ELSE "workload_id"
        keys == resolve_entity_id(db, id_key, params.entity_id, params.current_block)
    IN IF keys = {} THEN { QueryResult(POINT_BY_ID, 0, TRUE, None) }
       ELSE UNION { fetch_entity(POINT_BY_ID, db, k, params.current_block) : k \in keys }

execute_point_by_key(db, params) ==
    IF params.entity_key = None
    THEN { QueryResult(POINT_BY_KEY, 0, FALSE, "No entity_key provided") }
    ELSE fetch_entity(POINT_BY_KEY, db, params.entity_key, params.current_block)

execute_point_miss(db, params) ==
    LET row == { q \in db.string_attributes :
                    /\ q.key = "node_id" /\ q.value = params.entity_id
                    /\ valid_at(q, params.current_block) }
    IN { QueryResult(POINT_MISS, IF row = {} THEN 0 ELSE 1, TRUE, None) }


\* the injective sequences over a set: the orders in which an engine can emit it
Orders(S) ==
    { q \in [ 1..Cardinality(S) -> S ] :
        \A i, j \in 1..Cardinality(S) : i # j => q[i] # q[j] }

\* LIMIT ?
limit_rows(q, limit) == IF Len(q) <= limit THEN q ELSE SubSeq(q, 1, limit)

\* one arm of a self-join over string_attributes: the rows of the entity that
\* pass the arm's key, value and block clauses
string_arm(db, entity_key, key, value, current_block) ==
    { r \in db.string_attributes :
        /\ r.entity_key = entity_key /\ r.key = key /\ r.value = value
        /\ valid_at(r, current_block) }

\* a lower bound compared with > in place of >=
numeric_arm_above(db, entity_key, key, bound, current_block) ==
    { r \in db.numeric_attributes :
        /\ r.entity_key = entity_key /\ r.key = key /\ r.value > bound
        /\ r.from_block <= current_block /\ r.to_block > current_block }

\* na_cpu, na_ram, na_hours: key = ? AND value >= ?
numeric_arm_at_least(db, entity_key, key, bound, current_block) ==
    { r \in db.numeric_attributes :
        /\ r.entity_key = entity_key /\ r.key = key /\ r.value >= bound
        /\ valid_at(r, current_block) }

\* na_price: key = 'price_hour' AND value <= ?
numeric_arm_at_most(db, entity_key, key, bound, current_block) ==
    { r \in db.numeric_attributes :
        /\ r.entity_key = entity_key /\ r.key = key /\ r.value <= bound
        /\ valid_at(r, current_block) }

\* the joined rows of the node_filter statement, projected on the two columns
\* it reads: sa_status.entity_key and na_price.value
node_filter_join(db, params) ==
    LET B == params.current_block
        sa_status == { r \in db.string_attributes :
                         r.key = "status" /\ r.value = "available" /\ valid_at(r, B) }
        joined(e) ==
            /\ string_arm(db, e, "region", params.region, B) # {}
            /\ string_arm(db, e, "vm_type", params.vm_type, B) # {}
            /\ numeric_arm_at_least(db, e, "cpu_count", params.min_cpu, B) # {}
            /\ numeric_arm_at_least(db, e, "ram_gb", params.min_ram, B) # {}
            /\ numeric_arm_at_least(db, e, "avail_hours", params.min_hours, B) # {}
    IN UNION { { << s.entity_key, pr.value >> :
                    pr \in numeric_arm_at_most(db, s.entity_key, "price_hour",
                                               params.max_price, B) } :
                s \in { r \in sa_status : joined(r.entity_key) } }

\* the statement without its ORDER BY clause
order_unspecified(joined) == Orders({ x[1] : x \in joined })

\* SELECT DISTINCT entity_key ... ORDER BY na_price.value ASC: DISTINCT keeps one
\* joined row of each entity key, the sorter orders the kept rows by their price
order_by_price(joined) ==
    LET keys == { x[1] : x \in joined }
        kept == { f \in [ keys -> { x[2] : x \in joined } ] :
                    \A k \in keys : << k, f[k] >> \in joined }
    IN UNION { { q \in Orders(keys) :
                    \A i, j \in 1..Len(q) : i < j => f[q[i]] <= f[q[j]] } :
                f \in kept }

execute_node_filter(db, params, node_limit) ==
    { [ QueryResult(NODE_FILTER, Len(rows), TRUE, None) EXCEPT !.rows = rows ] :
        rows \in { limit_rows(q, node_limit) :
                    q \in order_by_price(node_filter_join(db, params)) } }

\* EXISTS (SELECT 1 FROM string_attributes sa2 WHERE ... type = 'workload' ...)
exists_workload_type(db, entity_key, current_block) ==
    string_arm(db, entity_key, "type", WORKLOAD, current_block) # {}

\* the status arm without its block clause
pending_status_rows_any_block(db, current_block) ==
    { r \in db.string_attributes : r.key = "status" /\ r.value = "pending" }

\* sa / sa_status of the workload queries: status = 'pending'
pending_status_rows(db, current_block) ==
    { r \in db.string_attributes :
        r.key = "status" /\ r.value = "pending" /\ valid_at(r, current_block) }

\* SELECT DISTINCT entity_key ... LIMIT ? with no ORDER BY
distinct_limit(keys, limit) ==
    { limit_rows(q, limit) : q \in Orders(keys) }

execute_workload_simple(db, params, workload_limit) ==
    LET B == params.current_block
        keys == { r.entity_key :
                    r \in { sa \in pending_status_rows(db, B) :
                              exists_workload_type(db, sa.entity_key, B) } }
    IN { [ QueryResult(WORKLOAD_SIMPLE, Len(rows), TRUE, None) EXCEPT !.rows = rows ] :
            rows \in distinct_limit(keys, workload_limit) }

execute_workload_specific(db, params, workload_limit) ==
    LET B == params.current_block
        keys == { r.entity_key :
                    r \in { sa \in pending_status_rows(db, B) :
                              /\ string_arm(db, sa.entity_key, "region", params.region, B) # {}
                              /\ string_arm(db, sa.entity_key, "vm_type", params.vm_type, B) # {}
                              /\ exists_workload_type(db, sa.entity_key, B) } }
    IN { [ QueryResult(WORKLOAD_SPECIFIC, Len(rows), TRUE, None) EXCEPT !.rows = rows ] :
            rows \in distinct_limit(keys, workload_limit) }

\* QueryExecutor.execute
execute(db, query_type, params, node_limit, workload_limit) ==
    CASE query_type = POINT_BY_ID -> execute_point_by_id(db, params)
      [] query_type = POINT_BY_KEY -> execute_point_by_key(db, params)
      [] query_type = POINT_MISS -> execute_point_miss(db, params)
      [] query_type = NODE_FILTER -> execute_node_filter(db, params, node_limit)
      [] query_type = WORKLOAD_SIMPLE -> execute_workload_simple(db, params, workload_limit)
      [] query_type = WORKLOAD_SPECIFIC ->
            execute_workload_specific(db, params, workload_limit)
      [] OTHER -> { QueryResult(query_type, 0, FALSE, "Unknown query type") }


(***************************************************************************)
(* The query benchmark on a database file written earlier.                 *)
(***************************************************************************)
\* a node of data center 1 as create_node builds it, its draws fixed to values
\* of the distributions; generate_dc_seed gives it the same node_id under every seed
StoredNode(seed, status, price_hour, block, ttl) ==
    [ create_node(1, 1, block, seed, status, seed_make_node_id(1, 1))
      EXCEPT !.region = "eu-west", !.vm_type = "cpu", !.cpu_count = 4, !.ram_gb = 16,
             !.avail_hours = 4, !.price_hour = price_hour, !.ttl = ttl ]

StoredWorkload(seed, status, region, block, ttl) ==
    [ create_workload(1, 1, block, seed, status, None, seed_make_workload_id(1, 1),
                      seed_make_node_id(1, 1))
      EXCEPT !.region = region, !.vm_type = "cpu", !.ttl = ttl ]

StoredEntities ==
    { StoredNode(seed, status, price_hour, block, ttl) :
        seed \in Seeds, status \in {"available", "busy"}, price_hour \in {100, 200},
        block \in 1..MaxWriteBlock, ttl \in 1..MaxTtl }
    \cup
    { StoredWorkload(1, status, region, block, ttl) :
        status \in {"pending", "running"}, region \in {"eu-west", "us-east"},
        block \in 1..MaxWriteBlock, ttl \in 1..MaxTtl }

\* the sets of at most n entity writes the primary keys admit together
RECURSIVE StoredSets(_)
StoredSets(n) ==
    IF n = 0 THEN { {} }
    ELSE LET smaller == StoredSets(n - 1)
         IN smaller \cup
            UNION { { S \cup {e} :
                        e \in { x \in StoredEntities :
                                  \A y \in S : ~ (y.entity_key = x.entity_key
                                                  /\ y.block = x.block) } } :
                    S \in smaller }

RowsOf(S, table) ==
    UNION { { ins.row : ins \in { i \in Range(EntityInserts(e, NodeCreator)) :
                                    i.table = table } } : e \in S }

\* the database file holding these entity writes, last_block at the latest of them
StoreOf(S) ==
    [ exists |-> TRUE,
      string_attributes |-> RowsOf(S, "string_attributes"),
      numeric_attributes |-> RowsOf(S, "numeric_attributes"),
      payloads |-> RowsOf(S, "payloads"),
      last_block |-> IF S = {} THEN << >>
                     ELSE << CHOOSE b \in { e.block : e \in S } :
                                \A e \in S : e.block <= b >> ]

\* --database
Database == "a.db"

\* --current-block
QueryBlocks == 1..(MaxWriteBlock + MaxTtl - 1)

\* --node-limit and --workload-limit: both 1, or both left at their defaults
Limits == { << 1, 1 >>, << DEFAULT_NODE_LIMIT, DEFAULT_WORKLOAD_LIMIT >> }

\* the QueryParams handed to execute at a block: identifiers and keys sampled at
\* any block, the filter draws of generate_params
ParamsAt(db, query_type, current_block) ==
    UNION { { [ p EXCEPT !.current_block = current_block ] :
                p \in generate_params(db, query_type, sampled) } :
            sampled \in QueryBlocks }

\* main of query_dc_benchmark: the database was written earlier, the generator
\* and the executor are built for one current block and one pair of limits
InitQuery ==
    /\ \E S \in StoredSets(MaxStored) :
          files = [ p \in Paths |-> IF p = Database THEN StoreOf(S) ELSE NoFile ]
    /\ tx = NoTx
    /\ run = Idle
    /\ nruns = 0
    /\ outcome = "none"
    /\ lost = "none"
    /\ result = NoResult
    /\ locust = NoLocust
    /\ eva = NoEva
    /\ \E current_block \in QueryBlocks, limits \in Limits :
          benchmark = [ running |-> TRUE, current_block |-> current_block,
                        node_limit |-> limits[1], workload_limit |-> limits[2] ]

\* what one iteration of BenchmarkRunner.run can leave: the parameters and the
\* QueryResult of executor.execute, with the rows the statements fetched
Executed(query_type) ==
    UNION { { [ query_type |-> r.query_type, params |-> params,
                row_count |-> r.row_count, success |-> r.success, error |-> r.error,
                rows |-> r.rows, str_attrs |-> r.str_attrs, num_attrs |-> r.num_attrs,
                payload |-> r.payload ] :
                r \in execute(files[Database], query_type, params,
                              benchmark.node_limit, benchmark.workload_limit) } :
            params \in ParamsAt(files[Database], query_type, benchmark.current_block) }

PointById ==
    /\ benchmark.running
    /\ result' \in Executed(POINT_BY_ID)
    /\ UNCHANGED << files, tx, run, nruns, outcome, lost, benchmark, locust, eva >>

PointByKey ==
    /\ benchmark.running
    /\ result' \in Executed(POINT_BY_KEY)
    /\ UNCHANGED << files, tx, run, nruns, outcome, lost, benchmark, locust, eva >>

PointMiss ==
    /\ benchmark.running
    /\ result' \in Executed(POINT_MISS)
    /\ UNCHANGED << files, tx, run, nruns, outcome, lost, benchmark, locust, eva >>

NodeFilter ==
    /\ benchmark.running
    /\ result' \in Executed(NODE_FILTER)
    /\ UNCHANGED << files, tx, run, nruns, outcome, lost, benchmark, locust, eva >>

WorkloadSimple ==
    /\ benchmark.running
    /\ result' \in Executed(WORKLOAD_SIMPLE)
    /\ UNCHANGED << files, tx, run, nruns, outcome, lost, benchmark, locust, eva >>

WorkloadSpecific ==
    /\ benchmark.running
    /\ result' \in Executed(WORKLOAD_SPECIFIC)
    /\ UNCHANGED << files, tx, run, nruns, outcome, lost, benchmark, locust, eva >>

NextQuery ==
    \/ PointById
    \/ PointByKey
    \/ PointMiss
    \/ NodeFilter
    \/ WorkloadSimple
    \/ WorkloadSpecific

SpecQuery == InitQuery /\ [][NextQuery]_vars

(***************************************************************************)
(* Properties of the query executor (checked under SpecQuery).             *)
(***************************************************************************)
Db == files[Database]

EntityKeys(db) == { r.entity_key : r \in db.string_attributes \cup db.numeric_attributes }

VisibleRows(db, table, E, B) == { r \in db[table] : r.entity_key = E /\ VisibleAt(r, B) }

\* the entity write e is in the database and is the only write of its entity key
OnlyWrite(db, e) ==
    /\ \A table \in Tables : RowsOf({e}, table) \subseteq db[table]
    /\ \A table \in Tables : \A r \in db[table] :
          r.entity_key = e.entity_key => r.from_block = e.block

\* C4: an entity written once, at block b with ttl t, is returned by a
\* point-by-key query at block B with every attribute it was written with and
\* its payload when b <= B < b + t, and with no row at all at any other B.
C4_RoundTripWithTtl ==
    result.query_type = POINT_BY_KEY =>
        \A e \in StoredEntities :
            (result.params.entity_key = e.entity_key /\ OnlyWrite(Db, e)) =>
                LET B == result.params.current_block
                    P == CHOOSE x \in RowsOf({e}, "payloads") : TRUE
                IN IF e.block <= B /\ B < e.block + e.ttl
                   THEN /\ result.success
                        /\ { << r.key, r.value >> : r \in result.str_attrs }
                             = Range(P.string_attributes)
                        /\ { << r.key, r.value >> : r \in result.num_attrs }
                             = Range(P.numeric_attributes)
                        /\ { r.payload : r \in result.payload } = { e.payload }
                        /\ result.row_count
                             = Len(P.string_attributes) + Len(P.numeric_attributes) + 1
                   ELSE /\ result.success
                        /\ result.row_count = 0
                        /\ result.str_attrs \cup result.num_attrs \cup result.payload = {}

\* a point-by-key query at the very block the only write of the entity expires
C4_Witness ==
    /\ result.query_type = POINT_BY_KEY
    /\ result.row_count = 0
    /\ \E e \in StoredEntities :
          /\ result.params.entity_key = e.entity_key
          /\ OnlyWrite(Db, e)
          /\ result.params.current_block = e.block + e.ttl

HasString(db, E, K, v, B) ==
    \E r \in db.string_attributes :
        r.entity_key = E /\ r.key = K /\ r.value = v /\ VisibleAt(r, B)

HasAtLeast(db, E, K, n, B) ==
    \E r \in db.numeric_attributes :
        r.entity_key = E /\ r.key = K /\ r.value >= n /\ VisibleAt(r, B)

HasAtMost(db, E, K, n, B) ==
    \E r \in db.numeric_attributes :
        r.entity_key = E /\ r.key = K /\ r.value =< n /\ VisibleAt(r, B)

\* the brute-force filter over all entities of the database
ReferenceNodes(db, p) ==
    { E \in EntityKeys(db) :
        /\ HasString(db, E, "status", "available", p.current_block)
        /\ HasString(db, E, "region", p.region, p.current_block)
        /\ HasString(db, E, "vm_type", p.vm_type, p.current_block)
        /\ HasAtLeast(db, E, "cpu_count", p.min_cpu, p.current_block)
        /\ HasAtLeast(db, E, "ram_gb", p.min_ram, p.current_block)
        /\ HasAtLeast(db, E, "avail_hours", p.min_hours, p.current_block)
        /\ HasAtMost(db, E, "price_hour", p.max_price, p.current_block) }

\* C6: when no more entities match than node_limit, node_filter returns exactly
\* the entity keys the brute-force filter selects (each clause met by a row
\* visible at the current block, bounds inclusive), each of them once.
C6_NodeFilterMatchesReference ==
    result.query_type = NODE_FILTER =>
        LET matches == ReferenceNodes(Db, result.params)
        IN Cardinality(matches) <= benchmark.node_limit =>
              /\ Range(result.rows) = matches
              /\ Len(result.rows) = Cardinality(matches)
              /\ result.row_count = Cardinality(matches)

\* a node_filter that returns a node priced exactly max_price and leaves out
\* another node of the database
C6_Witness ==
    /\ result.query_type = NODE_FILTER
    /\ Len(result.rows) = 1
    /\ HasAtLeast(Db, result.rows[1], "price_hour", result.params.max_price,
                  result.params.current_block)
    /\ \E E \in EntityKeys(Db) :
          /\ E # result.rows[1]
          /\ HasString(Db, E, "type", NODE, result.params.current_block)
          /\ HasString(Db, E, "status", "busy", result.params.current_block)


\* what a point lookup of entity key E has to count at block B
VisibleCount(db, E, B) ==
    Cardinality(VisibleRows(db, "string_attributes", E, B))
    + Cardinality(VisibleRows(db, "numeric_attributes", E, B))
    + (IF VisibleRows(db, "payloads", E, B) = {} THEN 0 ELSE 1)

\* the node_id and workload_id rows of an identifier that are visible at B
IdRows(db, id, B) ==
    { r \in db.string_attributes :
        r.key \in {"node_id", "workload_id"} /\ r.value = id /\ VisibleAt(r, B) }

\* C7: point-by-id at block B resolves the identifier through a node_id or
\* workload_id row visible at B and counts exactly the string rows, numeric rows
\* and payload row of that entity key that are visible at B; it counts nothing
\* when no such row is visible, and no fetched row is invisible at B.
C7_PointByIdCountsVisibleRows ==
    result.query_type = POINT_BY_ID =>
        LET B == result.params.current_block
            ids == IdRows(Db, result.params.entity_id, B)
        IN /\ result.success
           /\ IF ids = {} THEN result.row_count = 0
              ELSE \E r \in ids :
                     /\ result.row_count = VisibleCount(Db, r.entity_key, B)
                     /\ result.str_attrs = VisibleRows(Db, "string_attributes", r.entity_key, B)
                     /\ result.num_attrs = VisibleRows(Db, "numeric_attributes", r.entity_key, B)
                     /\ result.payload \subseteq VisibleRows(Db, "payloads", r.entity_key, B)

\* a point-by-id that finds the entity while another row of the same identifier,
\* written at a later block or already expired, is in the database
C7_Witness ==
    /\ result.query_type = POINT_BY_ID
    /\ result.row_count > 0
    /\ \E q \in Db.string_attributes :
          /\ q.key = "node_id" /\ q.value = result.params.entity_id
          /\ ~ VisibleAt(q, result.params.current_block)

\* the plain conjunctive filter of the workload queries
ReferenceWorkloads(db, query_type, p) ==
    { E \in EntityKeys(db) :
        /\ HasString(db, E, "status", "pending", p.current_block)
        /\ HasString(db, E, "type", WORKLOAD, p.current_block)
        /\ query_type = WORKLOAD_SPECIFIC =>
              /\ HasString(db, E, "region", p.region, p.current_block)
              /\ HasString(db, E, "vm_type", p.vm_type, p.current_block) }

\* C8: when no more entities match than workload_limit, workload_simple returns
\* exactly the entity keys with a status = 'pending' row and a type = 'workload'
\* row visible at the current block, and workload_specific exactly those that
\* also have the region and the vm_type asked for visible at that block.
C8_WorkloadQueriesMatchConjunction ==
    result.query_type \in {WORKLOAD_SIMPLE, WORKLOAD_SPECIFIC} =>
        LET matches == ReferenceWorkloads(Db, result.query_type, result.params)
        IN Cardinality(matches) <= benchmark.workload_limit =>
              /\ Range(result.rows) = matches
              /\ Len(result.rows) = Cardinality(matches)
              /\ result.row_count = Cardinality(matches)

\* a workload_specific that returns the pending workload of a database that
\* also holds a write of it which does not match at the current block
C8_Witness ==
    /\ result.query_type = WORKLOAD_SPECIFIC
    /\ Len(result.rows) = 1
    /\ \E r \in Db.string_attributes :
          /\ r.entity_key = result.rows[1] /\ r.key = "status"
          /\ ~ (r.value = "pending" /\ VisibleAt(r, result.params.current_block))

\* the prices under which an entity matches the price clause at block B
MatchingPrices(db, E, p) ==
    { r.value : r \in { q \in db.numeric_attributes :
                          /\ q.entity_key = E /\ q.key = "price_hour"
                          /\ q.value =< p.max_price /\ VisibleAt(q, p.current_block) } }

\* C9: node_filter succeeds and returns at most node_limit entity keys, also
\* when more entities match; the keys are matching entities, each once, in
\* non-decreasing order of price_hour, and no match left out is cheaper than a
\* returned one (an entity with several visible prices counts with one of them).
C9_NodeFilterLimit ==
    result.query_type = NODE_FILTER =>
        LET matches == ReferenceNodes(Db, result.params)
            rows == result.rows
            n == Len(rows)
        IN /\ result.success
           /\ n <= benchmark.node_limit
           /\ result.row_count = n
           /\ Range(rows) \subseteq matches
           /\ \A i, j \in 1..n : i # j => rows[i] # rows[j]
           /\ (n < benchmark.node_limit => Range(rows) = matches)
           /\ \E f \in [ matches -> UNION { MatchingPrices(Db, E, result.params) :
                                              E \in matches } ] :
                /\ \A E \in matches : f[E] \in MatchingPrices(Db, E, result.params)
                /\ \A i, j \in 1..n : i < j => f[rows[i]] <= f[rows[j]]
                /\ \A E \in matches \ Range(rows) : \A i \in 1..n : f[rows[i]] <= f[E]

\* a node_filter cut by the limit: two nodes of different price match, one is returned
C9_Witness ==
    /\ result.query_type = NODE_FILTER
    /\ benchmark.node_limit = 1
    /\ Len(result.rows) = 1
    /\ \E E \in ReferenceNodes(Db, result.params) :
          /\ E # result.rows[1]
          /\ \A x \in MatchingPrices(Db, E, result.params) :
                \A y \in MatchingPrices(Db, result.rows[1], result.params) : y < x

\* C10: node_filter is deterministic: executed again on the same database with
\* the same current block, parameters and limit, it returns the same sequence
\* of entity keys, also among entities of equal price_hour.
C10_NodeFilterDeterministic ==
    [][ ( /\ result.query_type = NODE_FILTER
          /\ result'.query_type = NODE_FILTER
          /\ result'.params = result.params
          /\ files' = files
          /\ benchmark' = benchmark )
        => result'.rows = result.rows ]_vars


\* the query behind a result matches no row visible at its block
MatchesNothing(db, r) ==
    LET B == r.params.current_block
    IN CASE r.query_type = POINT_BY_ID -> IdRows(db, r.params.entity_id, B) = {}
         [] r.query_type = POINT_MISS -> IdRows(db, r.params.entity_id, B) = {}
         [] r.query_type = POINT_BY_KEY ->
              \A table \in Tables : VisibleRows(db, table, r.params.entity_key, B) = {}
         [] r.query_type = NODE_FILTER -> ReferenceNodes(db, r.params) = {}
         [] r.query_type \in {WORKLOAD_SIMPLE, WORKLOAD_SPECIFIC} ->
              ReferenceWorkloads(db, r.query_type, r.params) = {}
         [] OTHER -> FALSE

\* C11: in every state of the store, the empty one and one whose rows have all
\* expired included, a query of any of the six types that matches no visible
\* row ends with success = True, row_count 0 and no error; a point-by-key with
\* no visible row reports "not found", not an error.
C11_NoMatchIsSuccess ==
    MatchesNothing(Db, result) =>
        /\ result.success
        /\ result.row_count = 0
        /\ result.error = None

(***************************************************************************)
(* The benchmark on a database one generator run has written.              *)
(***************************************************************************)
\* the entities of the blocks of one append_dc_data run
BlockEntities(blocks) ==
    UNION { Range(blocks[b].nodes) \cup Range(blocks[b].workloads) : b \in DOMAIN blocks }

\* the entity writes of one completed run of either generator from block 1;
\* a run completes when no two of its inserts share a primary key
GeneratedSets ==
    { S \in { BlockEntities(generate_blocks(a.num_blocks, a.nodes_per_block,
                                            a.workloads_per_node, a.percentage_assigned,
                                            1, a.seed)) : a \in AppendArgs }
            \cup
            { Range(generate_nodes(a.datacenters, a.nodes_per_dc, a.nodes_per_block,
                                   1, a.seed)) : a \in SeedArgs } :
        \A x \in S : \A y \in S : (x.entity_key = y.entity_key /\ x.block = y.block) => x = y }

\* main of query_dc_benchmark on the output of a generator run
InitGenerated ==
    /\ \E S \in GeneratedSets :
          files = [ p \in Paths |-> IF p = Database THEN StoreOf(S) ELSE NoFile ]
    /\ tx = NoTx
    /\ run = Idle
    /\ nruns = 0
    /\ outcome = "none"
    /\ lost = "none"
    /\ result = NoResult
    /\ locust = NoLocust
    /\ eva = NoEva
    /\ \E current_block \in QueryBlocks, limits \in Limits :
          benchmark = [ running |-> TRUE, current_block |-> current_block,
                        node_limit |-> limits[1], workload_limit |-> limits[2] ]

SpecGenerated == InitGenerated /\ [][NextQuery]_vars

\* the identifier is the node_id or workload_id of some row of the database
StoredId(db, id) ==
    \E r \in db.string_attributes : r.key \in {"node_id", "workload_id"} /\ r.value = id

\* C12: every point_miss query the QueryGenerator produces asks for an
\* identifier that no row of the store carries, whichever generator wrote the
\* store, and it returns row_count 0 with success = True.
C12_PointMissAlwaysMisses ==
    result.query_type = POINT_MISS =>
        /\ ~ StoredId(Db, result.params.entity_id)
        /\ result.row_count = 0
        /\ result.success

(***************************************************************************)
(* QueryExecutor.execute on a connection whose statements can fail.        *)
(***************************************************************************)
QueryType ==
    { POINT_BY_ID, POINT_BY_KEY, POINT_MISS, NODE_FILTER, WORKLOAD_SIMPLE, WORKLOAD_SPECIFIC }

\* str(e) of the sqlite3 errors a statement of the executor can raise: a table
\* dropped since the benchmark started, a writer holding the lock, a failed read
sqlite3_Error ==
    { "no such table: string_attributes", "database is locked", "disk I/O error" }

\* execute without its except clause: the exception leaves execute
except_nothing(query_type, e) == [ raised |-> e, result |-> NoResult ]

\* except Exception as e: the failure becomes the QueryResult
except_Exception(query_type, e) ==
    [ raised |-> None, result |-> QueryResult(query_type, 0, FALSE, e) ]

\* the try block of execute: the first statement of the query raises when the
\* storage is failing; point_by_key without a key returns before any statement
execute_try(db, query_type, params, node_limit, workload_limit, storage) ==
    IF storage = None \/ (query_type = POINT_BY_KEY /\ params.entity_key = None)
    THEN { [ raised |-> None, result |-> r ] :
             r \in execute(db, query_type, params, node_limit, workload_limit) }
    ELSE { except_Exception(query_type, storage) }

\* the benchmark of InitQuery on at most one stored entity write, the storage
\* working when the generator and the executor are built
InitFaulty ==
    /\ \E S \in StoredSets(1) :
          files = [ p \in Paths |-> IF p = Database THEN StoreOf(S) ELSE NoFile ]
    /\ tx = NoTx
    /\ run = Idle
    /\ nruns = 0
    /\ outcome = "none"
    /\ lost = "none"
    /\ result = NoResult
    /\ locust = NoLocust
    /\ eva = NoEva
    /\ \E current_block \in QueryBlocks :
          benchmark = [ running |-> TRUE, current_block |-> current_block,
                        node_limit |-> DEFAULT_NODE_LIMIT,
                        workload_limit |-> DEFAULT_WORKLOAD_LIMIT,
                        storage |-> None ]

\* the storage starts or stops failing between two queries
StorageFault ==
    /\ benchmark.running
    /\ \E storage \in sqlite3_Error \cup {None} :
          /\ storage # benchmark.storage
          /\ benchmark' = [ benchmark EXCEPT !.storage = storage ]
    /\ UNCHANGED << files, tx, run, nruns, outcome, lost, result, locust, eva >>

\* one iteration of BenchmarkRunner.run; an exception that leaves execute ends
\* the benchmark process
ExecuteQuery ==
    /\ benchmark.running
    /\ \E query_type \in QueryType :
       \E params \in ParamsAt(files[Database], query_type, benchmark.current_block) :
       \E o \in execute_try(files[Database], query_type, params, benchmark.node_limit,
                            benchmark.workload_limit, benchmark.storage) :
          IF o.raised = None
          THEN /\ result' = [ query_type |-> o.result.query_type, params |-> params,
                              row_count |-> o.result.row_count,
                              success |-> o.result.success, error |-> o.result.error,
                              rows |-> o.result.rows, str_attrs |-> o.result.str_attrs,
                              num_attrs |-> o.result.num_attrs,
                              payload |-> o.result.payload ]
               /\ UNCHANGED << outcome, benchmark, locust, eva >>
          ELSE /\ outcome' = o.raised
               /\ benchmark' = [ benchmark EXCEPT !.running = FALSE ]
               /\ UNCHANGED result
    /\ UNCHANGED << files, tx, run, nruns, lost, locust, eva >>

NextFaulty ==
    \/ StorageFault
    \/ ExecuteQuery

SpecFaulty == InitFaulty /\ [][NextFaulty]_vars

\* C13: QueryExecutor.execute returns failures as values: a query executed
\* while the storage raises an error (a missing table, for one) leaves no
\* exception behind it and yields a QueryResult with success = False, an error
\* text that is not empty and row_count 0.
C13_FailuresAreValues ==
    [][ (benchmark.storage # None /\ << result, outcome >>' # << result, outcome >>) =>
            /\ outcome' = "none"
            /\ benchmark'.running
            /\ ~ result'.success
            /\ result'.error # None /\ Len(result'.error) > 0
            /\ result'.row_count = 0 ]_vars

\* a node_filter executed after the table was dropped has come back as a result
C13_Witness ==
    /\ benchmark.running
    /\ benchmark.storage = "no such table: string_attributes"
    /\ result.query_type = NODE_FILTER
    /\ ~ result.success
    /\ result.error = "no such table: string_attributes"

\* C14: when more than one row of the same (entity_key, key) is visible at the
\* current block, point-by-id uses only the one with the greatest from_block
\* (and flags a data-integrity warning): among the rows it fetches and counts,
\* no two belong to the same key.
C14_PointByIdUsesLatestRow ==
    result.query_type = POINT_BY_ID =>
        \A fetched \in { result.str_attrs, result.num_attrs } :
            \A r \in fetched : \A q \in fetched :
                r.key = q.key => r.from_block = q.from_block

(***************************************************************************)
(* The Locust write users: locust/dc_write_and_update.py and               *)
(* locust/write_only.py.  A user keeps its state to itself; what the users *)
(* share is the server, seen here as the sequence of requests it receives. *)
(***************************************************************************)
\* Locust users spawned at most
MaxUsers == 2

\* no DataCenterWriteAndUpdateUser starts a task once the server has received
\* this many requests
MaxRequests == 4

\* a DataCenterUser starts no task once it has written this many nodes
MaxNodesPerUser == 1

\* DC_NODE_POOL_SIZE and DC_WORKLOAD_POOL_SIZE
NODE_POOL_SIZE == 2
WORKLOAD_POOL_SIZE == 2

\* the upper end of random.randint(3, 7) for workloads_per_node
MaxWorkloadsPerNode == 3

DEFAULT_BLOCK == 1
DEFAULT_DC_NUM == 1
DEFAULT_CREATOR_ADDRESS == "0x0000000000000000000000000000000000dc0001"

Users == 1..MaxUsers

\* random.randint(1, 2**31 - 1), when the user object has no user_id
UserIds == Seeds

\* random.randint(100, 1000) of the two request builders
TtlDraws == {100, 1000}

\* "0x" + entity_key.hex()
key_hex(entity_key) == "0x" \o entity_key

\* base64.b64encode(payload).decode("utf-8")
encode_payload(payload) == "base64:" \o payload

\* the request both builders return, the system attributes after the entity's own
EntityWriteRequest(e, creator_address, ttl, string_annotations, numeric_annotations) ==
    [ key |-> key_hex(e.entity_key),
      expiresIn |-> ttl,
      payload |-> encode_payload(e.payload),
      contentType |-> "application/octet-stream",
      ownerAddress |-> creator_address,
      stringAnnotations |->
          string_annotations @@ ("$creator" :> creator_address)
          @@ ("$key" :> key_hex(e.entity_key)) @@ ("$owner" :> creator_address),
      numericAnnotations |->
          numeric_annotations @@ ("$createdAtBlock" :> e.block)
          @@ ("$expiration" :> e.block + ttl) @@ ("$opIndex" :> e.op_index)
          @@ ("$sequence" :> e.sequence) @@ ("$txIndex" :> e.tx_index) ]

\* ttl is the draw of random.randint(100, 1000)
node_to_entity_request(node, creator_address, ttl) ==
    EntityWriteRequest(node, creator_address, ttl,
        [ dc_id |-> node.dc_id, type |-> NODE, node_id |-> node.node_id,
          region |-> node.region, status |-> node.status, vm_type |-> node.vm_type ],
        [ cpu_count |-> node.cpu_count, ram_gb |-> node.ram_gb,
          price_hour |-> node.price_hour, avail_hours |-> node.avail_hours ])

workload_to_entity_request(workload, creator_address, ttl) ==
    EntityWriteRequest(workload, creator_address, ttl,
        [ dc_id |-> workload.dc_id, type |-> WORKLOAD, workload_id |-> workload.workload_id,
          status |-> workload.status, assigned_node |-> workload.assigned_node,
          region |-> workload.region, vm_type |-> workload.vm_type ],
        [ req_cpu |-> workload.req_cpu, req_ram |-> workload.req_ram,
          max_hours |-> workload.max_hours ])

\* a user that was not spawned yet
NotStarted == [ started |-> FALSE ]

\* on_start of both user classes; workloads_per_node is drawn by DataCenterUser only
on_start(seed, workloads_per_node) ==
    [ started |-> TRUE, seed |-> seed, dc_num |-> DEFAULT_DC_NUM,
      creator_address |-> DEFAULT_CREATOR_ADDRESS, current_block |-> DEFAULT_BLOCK,
      node_counter |-> 0, workload_counter |-> 0,
      nodes |-> << >>, workloads |-> << >>, node_ring_idx |-> 0, workload_ring_idx |-> 0,
      workloads_per_node |-> workloads_per_node ]

\* a user at work: s.id is the user, s.user its state, s.sent the requests the
\* server has received.  _post_entity, and the client.post calls of DataCenterUser
post_entity(s, req, name) ==
    [ s EXCEPT !.sent = Append(@, [ user |-> s.id, method |-> "POST", path |-> "/entities",
                                    name |-> name, body |-> req ]) ]

\* a pop that leaves the mapping as it is
pop_nothing(patch, k) == patch

\* the mapping without one of its keys
pop(patch, k) == [ f \in (DOMAIN patch) \ {k} |-> patch[f] ]

put_entity_update(s, key, patch, name) ==
    [ s EXCEPT !.sent = Append(@, [ user |-> s.id, method |-> "PUT",
                                    path |-> "/entities/" \o key, name |-> name,
                                    body |-> pop(patch, "key") ]) ]

\* a put that overwrites without moving the ring index
pool_put_node_same_slot(s, node) ==
    IF Len(s.user.nodes) < NODE_POOL_SIZE
    THEN [ s EXCEPT !.user.nodes = Append(@, node) ]
    ELSE [ s EXCEPT !.user.nodes[s.user.node_ring_idx + 1] = node ]

pool_put_node(s, node) ==
    IF Len(s.user.nodes) < NODE_POOL_SIZE
    THEN [ s EXCEPT !.user.nodes = Append(@, node) ]
    ELSE [ s EXCEPT !.user.nodes[s.user.node_ring_idx + 1] = node,
                    !.user.node_ring_idx = (@ + 1) % NODE_POOL_SIZE ]

pool_put_workload(s, workload) ==
    IF Len(s.user.workloads) < WORKLOAD_POOL_SIZE
    THEN [ s EXCEPT !.user.workloads = Append(@, workload) ]
    ELSE [ s EXCEPT !.user.workloads[s.user.workload_ring_idx + 1] = workload,
                    !.user.workload_ring_idx = (@ + 1) % WORKLOAD_POOL_SIZE ]

\* pool[pool.index(old)] = new, or the put of the except branch
pool_replace(pool, old, new) ==
    LET idx == CHOOSE i \in 1..Len(pool) : pool[i] = old /\ \A j \in 1..(i - 1) : pool[j] # old
    IN [ pool EXCEPT ![idx] = new ]

\* the statuses _sample_node_status_for_update can return
sample_node_status_for_update == { "offline", "available", "busy" }

\* the statuses _sample_workload_status_for_update can return
sample_workload_status_for_update == { "completed", "running", "pending" }

\* _workload_assignment_for_status: the ids self._pick_node() can lead to
\* an assignment that names a node whatever the status
workload_assignment_for_any_status(s, status) ==
    IF s.user.nodes # << >>
    THEN { node.node_id : node \in Range(s.user.nodes) }
    ELSE { "" }

workload_assignment_for_status(s, status) ==
    IF status = "running" /\ s.user.nodes # << >>
    THEN { node.node_id : node \in Range(s.user.nodes) }
    ELSE { "" }
\* the tasks of DataCenterWriteAndUpdateUser: the sessions a task can end in,
\* one for each outcome of its random draws
\* an add_node that writes at the block of the previous request
add_node_same_block(s) ==
    LET s1 == [ s EXCEPT !.user.node_counter = @ + 1 ]
        u == s1.user
        node == create_node(u.dc_num, u.node_counter, u.current_block, u.seed, "available",
                            make_node_id(u.dc_num, u.node_counter, u.seed))
    IN { pool_put_node(post_entity(s1, node_to_entity_request(node, u.creator_address, ttl),
                                   "add_node"),
                       node) : ttl \in TtlDraws }

add_node(s) ==
    LET s1 == [ s EXCEPT !.user.node_counter = @ + 1, !.user.current_block = @ + 1 ]
        u == s1.user
        node == create_node(u.dc_num, u.node_counter, u.current_block, u.seed, "available",
                            make_node_id(u.dc_num, u.node_counter, u.seed))
    IN { pool_put_node(post_entity(s1, node_to_entity_request(node, u.creator_address, ttl),
                                   "add_node"),
                       node) : ttl \in TtlDraws }

update_node(s) ==
    IF s.user.nodes = << >>
    THEN add_node(s)
    ELSE LET s1 == [ s EXCEPT !.user.current_block = @ + 1 ]
             Updated(old, status) ==
                 [ old EXCEPT !.status = status, !.block = s1.user.current_block ]
         IN { [ put_entity_update(s1, key_hex(node.entity_key),
                    node_to_entity_request(Updated(node, new_status),
                                           s1.user.creator_address, ttl),
                    "update_node")
                EXCEPT !.user.nodes = pool_replace(@, node, Updated(node, new_status)) ] :
                node \in Range(s.user.nodes),
                new_status \in sample_node_status_for_update,
                ttl \in TtlDraws }

add_workload(s) ==
    UNION {
        LET s2 == [ s1 EXCEPT !.user.workload_counter = @ + 1, !.user.current_block = @ + 1 ]
            u == s2.user
            Created(assigned_node_id) ==
                create_workload(u.dc_num, u.workload_counter, u.current_block, u.seed,
                                "running", assigned_node_id,
                                make_workload_id(u.dc_num, u.workload_counter, u.seed), "")
        IN { pool_put_workload(
                 post_entity(s2, workload_to_entity_request(Created(assigned_node_id),
                                                            u.creator_address, ttl),
                             "add_workload"),
                 Created(assigned_node_id)) :
               assigned_node_id \in IF u.nodes = << >> THEN { "" }
                                    ELSE { node.node_id : node \in Range(u.nodes) },
               ttl \in TtlDraws } :
        s1 \in IF s.user.nodes = << >> THEN add_node(s) ELSE { s } }

update_workload(s) ==
    IF s.user.workloads = << >>
    THEN add_workload(s)
    ELSE UNION {
        LET s2 == [ s1 EXCEPT !.user.current_block = @ + 1 ]
            Updated(old, status, assigned_node) ==
                [ old EXCEPT !.status = status, !.assigned_node = assigned_node,
                             !.block = s2.user.current_block ]
        IN UNION { { [ put_entity_update(s2, key_hex(workload.entity_key),
                           workload_to_entity_request(
                               Updated(workload, new_status, new_assigned),
                               s2.user.creator_address, ttl),
                           "update_workload")
                       EXCEPT !.user.workloads =
                                  pool_replace(@, workload,
                                               Updated(workload, new_status, new_assigned)) ] :
                       new_assigned \in workload_assignment_for_status(s2, new_status),
                       ttl \in TtlDraws } :
                   new_status \in sample_workload_status_for_update } :
        workload \in Range(s.user.workloads),
        s1 \in IF s.user.nodes = << >> THEN add_node(s) ELSE { s } }

\* the task of DataCenterUser: one node and workloads_per_node workloads of it
RECURSIVE write_workloads(_, _, _)
write_workloads(s, node, wl_idx) ==
    IF wl_idx = s.user.workloads_per_node THEN { s }
    ELSE LET s1 == [ s EXCEPT !.user.workload_counter = @ + 1 ]
             u == s1.user
             assigned == node.status = "busy" /\ wl_idx = 0
             workload == create_workload(u.dc_num, u.workload_counter, u.current_block, u.seed,
                                         IF assigned THEN "running" ELSE "pending",
                                         IF assigned THEN node.node_id ELSE "",
                                         make_workload_id(u.dc_num, u.workload_counter, u.seed),
                                         "")
         IN UNION { write_workloads(
                        post_entity(s1, workload_to_entity_request(workload, u.creator_address,
                                                                   ttl),
                                    "write_workload"),
                        node, wl_idx + 1) : ttl \in TtlDraws }

write_node_with_workloads(s) ==
    LET s1 == [ s EXCEPT !.user.node_counter = @ + 1, !.user.current_block = @ + 1 ]
        u == s1.user
        node == create_node(u.dc_num, u.node_counter, u.current_block, u.seed, None,
                            make_node_id(u.dc_num, u.node_counter, u.seed))
    IN UNION { write_workloads(
                   post_entity(s1, node_to_entity_request(node, u.creator_address, ttl),
                               "write_node"),
                   node, 0) : ttl \in TtlDraws }

\* the two locustfiles with write users
WRITE_AND_UPDATE == "dc_write_and_update.py"
WRITE_ONLY == "write_only.py"

\* locust -f <file>: no user spawned, no request sent
InitLocust ==
    /\ files = [ p \in Paths |-> NoFile ]
    /\ tx = NoTx
    /\ run = Idle
    /\ nruns = 0
    /\ outcome = "none"
    /\ lost = "none"
    /\ result = NoResult
    /\ benchmark = NoBenchmark
    /\ eva = NoEva
    /\ \E file \in { WRITE_AND_UPDATE, WRITE_ONLY } :
          locust = [ file |-> file, users |-> [ u \in Users |-> NotStarted ],
                     requests |-> << >> ]

\* the runner spawns the next user
OnStart ==
    /\ \E u \in Users :
          /\ ~ locust.users[u].started
          /\ \A v \in 1..(u - 1) : locust.users[v].started
          /\ \E seed \in UserIds :
             \E workloads_per_node \in IF locust.file = WRITE_ONLY
                                       THEN 3..MaxWorkloadsPerNode ELSE { 0 } :
                locust' = [ locust EXCEPT !.users[u] = on_start(seed, workloads_per_node) ]
    /\ UNCHANGED << files, tx, run, nruns, outcome, lost, result, benchmark, eva >>

\* the sessions user u can start a task from
Session(u) == [ id |-> u, user |-> locust.users[u], sent |-> locust.requests ]

\* user u of the locustfile can start a task
CanRun(u, file) ==
    /\ locust.file = file
    /\ locust.users[u].started
    /\ file = WRITE_AND_UPDATE => Len(locust.requests) < MaxRequests
    /\ file = WRITE_ONLY => locust.users[u].node_counter < MaxNodesPerUser

\* the task has run to its end
Ran(u, s) == locust' = [ locust EXCEPT !.users[u] = s.user, !.requests = s.sent ]

AddNode ==
    /\ \E u \in Users : CanRun(u, WRITE_AND_UPDATE) /\ \E s \in add_node(Session(u)) : Ran(u, s)
    /\ UNCHANGED << files, tx, run, nruns, outcome, lost, result, benchmark, eva >>

UpdateNode ==
    /\ \E u \in Users : CanRun(u, WRITE_AND_UPDATE) /\ \E s \in update_node(Session(u)) : Ran(u, s)
    /\ UNCHANGED << files, tx, run, nruns, outcome, lost, result, benchmark, eva >>

AddWorkload ==
    /\ \E u \in Users : CanRun(u, WRITE_AND_UPDATE) /\ \E s \in add_workload(Session(u)) : Ran(u, s)
    /\ UNCHANGED << files, tx, run, nruns, outcome, lost, result, benchmark, eva >>

UpdateWorkload ==
    /\ \E u \in Users : CanRun(u, WRITE_AND_UPDATE) /\ \E s \in update_workload(Session(u)) : Ran(u, s)
    /\ UNCHANGED << files, tx, run, nruns, outcome, lost, result, benchmark, eva >>

WriteNodeWithWorkloads ==
    /\ \E u \in Users :
          CanRun(u, WRITE_ONLY) /\ \E s \in write_node_with_workloads(Session(u)) : Ran(u, s)
    /\ UNCHANGED << files, tx, run, nruns, outcome, lost, result, benchmark, eva >>

NextLocust ==
    \/ OnStart
    \/ AddNode
    \/ UpdateNode
    \/ AddWorkload
    \/ UpdateWorkload
    \/ WriteNodeWithWorkloads

SpecLocust == InitLocust /\ [][NextLocust]_vars

(***************************************************************************)
(* Properties of the Locust write users (checked under SpecLocust).        *)
(***************************************************************************)
\* the entity key a request writes
WrittenKey(r) == r.body.stringAnnotations["$key"]

\* C16: for any number of concurrent Locust write users and any interleaving
\* of their tasks, no entity key is written by two different users (so the
\* versions of an entity are those of its one user's sequential execution).
C16_NoKeySharedByUsers ==
    \A i \in DOMAIN locust.requests : \A j \in DOMAIN locust.requests :
        WrittenKey(locust.requests[i]) = WrittenKey(locust.requests[j])
            => locust.requests[i].user = locust.requests[j].user

CreatedAtBlock(r) == r.body.numericAnnotations["$createdAtBlock"]

Between == "between queries"

\* main of query_dc_benchmark on a database of at most one entity write, which
\* a generator run is appending to
InitConcurrent ==
    /\ \E S \in StoredSets(1) :
          files = [ p \in Paths |-> IF p = Database THEN StoreOf(S) ELSE NoFile ]
    /\ tx = NoTx
    /\ run = Idle
    /\ nruns = 0
    /\ outcome = "none"
    /\ lost = "none"
    /\ result = NoResult
    /\ locust = NoLocust
    /\ eva = NoEva
    /\ \E current_block \in QueryBlocks :
          benchmark = [ running |-> TRUE, current_block |-> current_block,
                        node_limit |-> DEFAULT_NODE_LIMIT,
                        workload_limit |-> DEFAULT_WORKLOAD_LIMIT,
                        at |-> Between ]

\* what the statements of the running query have read, and the committed
\* states of the file they have read it from
Reading(at, params, entity_key, str_attrs, num_attrs, snapshots) ==
    [ running |-> TRUE, current_block |-> benchmark.current_block,
      node_limit |-> benchmark.node_limit, workload_limit |-> benchmark.workload_limit,
      at |-> at, params |-> params, entity_key |-> entity_key, str_attrs |-> str_attrs,
      num_attrs |-> num_attrs, snapshots |-> snapshots ]

\* the QueryResult of a point-by-id and what its statements fetched
PointByIdResult(params, str_attrs, num_attrs, payload, snapshots) ==
    [ query_type |-> POINT_BY_ID, params |-> params,
      row_count |-> Cardinality(str_attrs) + Cardinality(num_attrs)
                        + (IF payload = {} THEN 0 ELSE 1),
      success |-> TRUE, error |-> None, rows |-> << >>,
      str_attrs |-> str_attrs, num_attrs |-> num_attrs, payload |-> payload,
      snapshots |-> snapshots ]

\* step 1 of _execute_point_by_id: the identifier is resolved, or the query
\* ends with no row
SelectEntityKey ==
    /\ benchmark.running /\ benchmark.at = Between
    /\ \E params \in ParamsAt(files[Database], POINT_BY_ID, benchmark.current_block) :
          LET id_key == IF params.entity_id # None /\ startswith(params.entity_id, "node_")
                        THEN "node_id" ELSE "workload_id"
              keys == resolve_entity_id(files[Database], id_key, params.entity_id,
                                        params.current_block)
          IN IF keys = {}
             THEN /\ result' = PointByIdResult(params, {}, {}, {}, { files[Database] })
                  /\ UNCHANGED benchmark
             ELSE /\ \E k \in keys :
                        benchmark' = Reading("string_attributes", params, k, {}, {},
                                             { files[Database] })
                  /\ UNCHANGED result
    /\ UNCHANGED << files, tx, run, nruns, outcome, lost, locust, eva >>

\* step 2, first statement
SelectStrings ==
    /\ benchmark.running /\ benchmark.at = "string_attributes"
    /\ benchmark' =
          Reading("numeric_attributes", benchmark.params, benchmark.entity_key,
                  select_by_entity_key(files[Database], "string_attributes",
                                       benchmark.entity_key, benchmark.current_block),
                  {}, benchmark.snapshots \cup { files[Database] })
    /\ UNCHANGED << files, tx, run, nruns, outcome, lost, result, locust, eva >>

\* step 2, second statement
SelectNumerics ==
    /\ benchmark.running /\ benchmark.at = "numeric_attributes"
    /\ benchmark' =
          Reading("payloads", benchmark.params, benchmark.entity_key, benchmark.str_attrs,
                  select_by_entity_key(files[Database], "numeric_attributes",
                                       benchmark.entity_key, benchmark.current_block),
                  benchmark.snapshots \cup { files[Database] })
    /\ UNCHANGED << files, tx, run, nruns, outcome, lost, result, locust, eva >>

\* step 2, third statement, and the QueryResult
SelectPayload ==
    /\ benchmark.running /\ benchmark.at = "payloads"
    /\ LET payloads == select_by_entity_key(files[Database], "payloads",
                                            benchmark.entity_key, benchmark.current_block)
       IN \E payload \in IF payloads = {} THEN { {} }
                         ELSE { { P } : P \in latest_one(payloads) } :
             result' = PointByIdResult(benchmark.params, benchmark.str_attrs,
                                       benchmark.num_attrs, payload,
                                       benchmark.snapshots \cup { files[Database] })
    /\ benchmark' = [ running |-> TRUE, current_block |-> benchmark.current_block,
                      node_limit |-> benchmark.node_limit,
                      workload_limit |-> benchmark.workload_limit, at |-> Between ]
    /\ UNCHANGED << files, tx, run, nruns, outcome, lost, locust, eva >>

\* conn.commit() of a generator run on the same file: whole entity writes, at a
\* block after every block the file holds, become visible at once
WriterCommits ==
    /\ \E e \in StoredEntities :
          /\ \A r \in files[Database].string_attributes : r.from_block < e.block
          /\ files' = [ files EXCEPT ![Database] =
                          [ @ EXCEPT !.string_attributes =
                                         @ \cup RowsOf({e}, "string_attributes"),
                                     !.numeric_attributes =
                                         @ \cup RowsOf({e}, "numeric_attributes"),
                                     !.payloads = @ \cup RowsOf({e}, "payloads") ] ]
    /\ UNCHANGED << tx, run, nruns, outcome, lost, result, benchmark, locust, eva >>

NextConcurrent ==
    \/ SelectEntityKey
    \/ SelectStrings
    \/ SelectNumerics
    \/ SelectPayload
    \/ WriterCommits

SpecConcurrent == InitConcurrent /\ [][NextConcurrent]_vars

\* C17: a point-by-id whose four statements run while a writer commits entity
\* writes observes one consistent snapshot: what it returns and fetches is what
\* point-by-id returns on one of the committed states the file had during it.
C17_PointByIdConsistentSnapshot ==
    result.query_type = POINT_BY_ID =>
        \E db \in result.snapshots :
            \E r \in execute_point_by_id(db, result.params) :
                /\ r.row_count = result.row_count
                /\ r.str_attrs = result.str_attrs
                /\ r.num_attrs = result.num_attrs
                /\ r.payload = result.payload

(***************************************************************************)
(* Properties of the generator runs (checked under Spec).                  *)
(***************************************************************************)
\* the last_block row is there and no row of the three tables starts after it
LastBlockCovers(db) ==
    /\ db.last_block # << >>
    /\ \A table \in Tables : \A r \in db[table] : r.from_block <= db.last_block[1]

\* C18: when a generator run completes, the last_block value of its output
\* file is greater than or equal to the from_block of every row of
\* string_attributes, numeric_attributes and payloads.
C18_LastBlockCoversEveryRow ==
    [][ (run.active /\ ~ run'.active /\ outcome' = "ok")
            => LastBlockCovers(files'[run.output]) ]_vars

\* the blocks of the inserts the run has still to execute after this statement
BlocksToCome == { run.todo[i].row.from_block : i \in { j \in 2..Len(run.todo) : run.todo[j].op = "execute" } }

\* C19: every commit of the generator write paths falls on a block boundary:
\* at each commit, every block has either all of the entities the run generates
\* for it committed or none of them, so no block with a committed row has an
\* insert still to come.
C19_CommitsOnBlockBoundaries ==
    [][ (run.active /\ run.todo # << >> /\ Head(run.todo).op = "commit" /\ run'.active)
            => \A table \in Tables : \A r \in files'[run.output][table] :
                  r.from_block \notin BlocksToCome ]_vars

\* the slot (from 1) the n-th insertion into a pool of the given size goes to:
\* the n-th free slot, or slot (k - 1) mod size for the k-th insertion after
\* the pool has become full
SlotOf(n, size) == IF n <= size THEN n ELSE ((n - size - 1) % size) + 1

\* the number of the last of c insertions that went to slot i
LastInto(i, c, size) ==
    CHOOSE n \in 1..c : SlotOf(n, size) = i /\ \A m \in (n + 1)..c : SlotOf(m, size) # i

\* the pool holds, slot by slot, the entities of its last insertions
PoolAsInserted(pool, ring_idx, c, size, seed, kind, dc_num) ==
    /\ Len(pool) = (IF c < size THEN c ELSE size)
    /\ ring_idx \in 0..(size - 1)
    /\ ring_idx = (IF c > size THEN (c - size) % size ELSE 0)
    /\ \A i \in 1..Len(pool) :
          pool[i].payload = PayloadOf(seed, kind, dc_num, LastInto(i, c, size))

\* C24: after any sequence of tasks of a DataCenterWriteAndUpdateUser the node
\* pool holds at most NODE_POOL_SIZE entries and the workload pool at most
\* WORKLOAD_POOL_SIZE, each ring index is within [0, pool size), and once a
\* pool is full the k-th further insertion has overwritten slot (k - 1) mod
\* pool size (updates replace a pooled entity in its own slot).
C24_PoolsAreRingBuffers ==
    locust.file = WRITE_AND_UPDATE =>
        \A u \in Users :
            LET user == locust.users[u]
            IN user.started =>
                  /\ PoolAsInserted(user.nodes, user.node_ring_idx, user.node_counter,
                                    NODE_POOL_SIZE, user.seed, NODE, user.dc_num)
                  /\ PoolAsInserted(user.workloads, user.workload_ring_idx,
                                    user.workload_counter, WORKLOAD_POOL_SIZE, user.seed,
                                    WORKLOAD, user.dc_num)

\* a user whose full node pool has taken one more node, in slot 0
C24_Witness ==
    \E u \in Users :
        /\ locust.users[u].started
        /\ locust.users[u].node_counter = NODE_POOL_SIZE + 1
        /\ Len(locust.users[u].nodes) = NODE_POOL_SIZE
        /\ locust.users[u].node_ring_idx = 1 % NODE_POOL_SIZE

\* a user whose full workload pool has taken one more workload, in slot 0
WorkloadPoolWrapped ==
    \E u \in Users :
        /\ locust.users[u].started
        /\ locust.users[u].workload_counter = WORKLOAD_POOL_SIZE + 1
        /\ Len(locust.users[u].workloads) = WORKLOAD_POOL_SIZE
        /\ locust.users[u].workload_ring_idx = 1 % WORKLOAD_POOL_SIZE

\* the positions in locust.requests of the requests user u has sent, in order
RequestsOf(u) == { i \in 1..Len(locust.requests) : locust.requests[i].user = u }

\* C28: every request a DataCenterWriteAndUpdateUser sends carries a
\* $createdAtBlock strictly greater than that of every earlier request of the
\* same user, whichever of the four tasks (bootstrap paths included) sent
\* them; so no two requests of one user share (entity key, block).
C28_UserBlocksStrictlyIncrease ==
    locust.file = WRITE_AND_UPDATE =>
        \A u \in Users : \A i, j \in RequestsOf(u) :
            i < j =>
                /\ CreatedAtBlock(locust.requests[i]) < CreatedAtBlock(locust.requests[j])
                /\ << WrittenKey(locust.requests[i]), CreatedAtBlock(locust.requests[i]) >>
                       # << WrittenKey(locust.requests[j]), CreatedAtBlock(locust.requests[j]) >>

\* one user has sent the two requests of a bootstrapping add_workload and then
\* an update and a further node
C28_Witness ==
    /\ locust.file = WRITE_AND_UPDATE
    /\ \E u \in Users :
          /\ RequestsOf(u) = 1..4
          /\ locust.requests[1].name = "add_node"
          /\ locust.requests[2].name = "add_workload"
          /\ locust.requests[3].name = "update_workload"
          /\ locust.requests[4].name = "add_node"

\* assigned_node is set exactly on running workloads
AssignedIffRunning(status, assigned_node) == (assigned_node # "") <=> (status = "running")

\* generate_blocks: every workload of every block is assigned iff it runs, and
\* to a node of its own block or of an earlier one
GeneratedBlocksAssign ==
    \A a \in AppendArgs :
        LET blocks == generate_blocks(a.num_blocks, a.nodes_per_block, a.workloads_per_node,
                                      a.percentage_assigned, 1, a.seed)
        IN \A b \in DOMAIN blocks : \A w \in DOMAIN blocks[b].workloads :
              LET workload == blocks[b].workloads[w]
              IN /\ AssignedIffRunning(workload.status, workload.assigned_node)
                 /\ workload.assigned_node # "" =>
                        \E c \in 1..b : \E j \in DOMAIN blocks[c].nodes :
                            blocks[c].nodes[j].node_id = workload.assigned_node

\* the positions in locust.requests that write a workload
WorkloadRequests ==
    { i \in 1..Len(locust.requests) : locust.requests[i].body.stringAnnotations.type = WORKLOAD }

\* C30: in every workload generate_blocks produces and in every workload
\* request a DataCenterWriteAndUpdateUser sends, assigned_node is non-empty
\* iff status is "running", and a non-empty assigned_node is the node_id of a
\* node the same generator run or the same user created earlier.
C30_AssignedNodeIffRunning ==
    /\ GeneratedBlocksAssign
    /\ locust.file = WRITE_AND_UPDATE =>
          \A i \in WorkloadRequests :
              LET r == locust.requests[i]
                  sent == r.body.stringAnnotations
              IN /\ AssignedIffRunning(sent.status, sent.assigned_node)
                 /\ sent.assigned_node # "" =>
                        \E j \in 1..(i - 1) :
                            /\ locust.requests[j].user = r.user
                            /\ locust.requests[j].name = "add_node"
                            /\ locust.requests[j].body.stringAnnotations.node_id
                                   = sent.assigned_node

\* a user has sent a running workload and then moved one to pending, and
\* generate_blocks yields running as well as pending workloads
C30_Witness ==
    /\ locust.file = WRITE_AND_UPDATE
    /\ \E i, j \in WorkloadRequests :
          /\ i < j
          /\ locust.requests[i].user = locust.requests[j].user
          /\ locust.requests[i].body.stringAnnotations.status = "running"
          /\ locust.requests[i].body.stringAnnotations.assigned_node # ""
          /\ locust.requests[j].name = "update_workload"
          /\ locust.requests[j].body.stringAnnotations.status = "pending"
    /\ \E a \in AppendArgs :
          LET blocks == generate_blocks(a.num_blocks, a.nodes_per_block, a.workloads_per_node,
                                        a.percentage_assigned, 1, a.seed)
          IN \E b \in DOMAIN blocks : \E v, w \in DOMAIN blocks[b].workloads :
                /\ blocks[b].workloads[v].status = "running"
                /\ blocks[b].workloads[w].status = "pending"

\* every row of every table of db is in the view
RowsContained(db, view) ==
    /\ db.string_attributes \subseteq view.string_attributes
    /\ db.numeric_attributes \subseteq view.numeric_attributes
    /\ db.payloads \subseteq view.payloads

\* init_database(a.output, a.input) with an existing input appends
AppendsToInput(a) ==
    (Start(a) /\ a.input # None /\ files[a.input].exists) =>
        /\ RowsContained(files[a.input], ConnView(files'[a.output], tx'))
        /\ files'[a.input] = files[a.input]

\* C26: init_database(db_path, input_db) with an existing input database
\* appends rather than replaces: for every choice of the two paths the
\* database of the returned connection contains every row of the input
\* database's tables, and the input database file is left unchanged.
C26_InitDatabaseKeepsInput == [][ \A a \in AppendArgs : AppendsToInput(a) ]_vars

\* the same for runs whose output path differs from their input path
OtherInputIsKept ==
    [][ \A a \in AppendArgs : a.input # a.output => AppendsToInput(a) ]_vars

\* the rows of the three versioned tables
AllRows(db) == db.string_attributes \cup db.numeric_attributes \cup db.payloads

CompletesChained ==
    /\ run.active
    /\ ~ run'.active
    /\ outcome' = "ok"
    /\ run.chained_from # << >>

\* C29: across generator runs chained through --input, generate_dc_seed and
\* append_dc_data in any order, the value stored in last_block never
\* decreases from one completed run to the next.
C29_LastBlockNeverDecreases ==
    [][ CompletesChained => files'[run.output].last_block[1] >= run.chained_from[1] ]_vars

(***************************************************************************)
(* db/eva.py: the entity table and its two attribute tables.              *)
(***************************************************************************)
MaxInserts == 2

EntityTypes == { "person", "product" }

\* attribute names, in the order the dicts of a call list them
AttributeNames == << "age", "name" >>

StringValues == { "Alice", "30" }

IntValues == { 30 }

\* the values CURRENT_TIMESTAMP can take
Timestamps == { "2026-01-01 00:00:00", "2026-01-01 00:00:01" }

\* a Python dict with keys among the attribute names, or None
NoDict == [ given |-> FALSE, dict |-> << >> ]

Dicts(values) ==
    { NoDict } \cup
    UNION { { [ given |-> TRUE, dict |-> d ] : d \in [ D -> values ] } :
            D \in SUBSET Range(AttributeNames) }

\* dict.items(), and the truth value of the argument (None and {} are false)
items(arg) == SelectSeq(AttributeNames, LAMBDA name : name \in DOMAIN arg.dict)

Truthy(arg) == arg.given /\ DOMAIN arg.dict # {}

\* the values of the attributes dict get_entity returns
PyStr(value) == [ type |-> "str", str |-> value, int |-> 0 ]

PyInt(value) == [ type |-> "int", str |-> "", int |-> value ]

\* d[name] = value
SetItem(d, name, value) ==
    [ n \in DOMAIN d \cup { name } |-> IF n = name THEN value ELSE d[n] ]

\* create_eva_schema on a new connection; calls lists the insert_entity calls
create_eva_schema ==
    [ schema |-> TRUE, entity |-> << >>, attribute_string |-> << >>, attribute_int |-> << >>,
      sqlite_sequence |-> [ entity |-> 0, attribute_string |-> 0, attribute_int |-> 0 ],
      calls |-> << >>, returned |-> [ call |-> None ] ]

\* INTEGER PRIMARY KEY AUTOINCREMENT that reuses the highest rowid
autoincrement_reusing(db, table) == IF db.sqlite_sequence[table] = 0 THEN 1 ELSE db.sqlite_sequence[table]

\* INTEGER PRIMARY KEY AUTOINCREMENT: one above the highest rowid ever used
autoincrement(db, table) == db.sqlite_sequence[table] + 1

\* executemany of the attribute inserts of one dict
RECURSIVE executemany(_, _, _, _, _)
executemany(db, table, entity_id, d, names) ==
    IF names = << >> THEN db
    ELSE LET id == autoincrement(db, table)
             row == [ id |-> id, entity_id |-> entity_id, attribute_name |-> Head(names),
                      attribute_value |-> d[Head(names)] ]
         IN executemany([ db EXCEPT ![table] = Append(@, row),
                                    !.sqlite_sequence[table] = id ],
                        table, entity_id, d, Tail(names))

\* insert_entity: the database after the commit, the call and its return value
insert_entity(db, entity_type, string_attrs, int_attrs, created_at) ==
    LET entity_id == autoincrement(db, "entity")
        db1 == [ db EXCEPT !.entity = Append(@, [ id |-> entity_id,
                                                  entity_type |-> entity_type,
                                                  created_at |-> created_at ]),
                           !.sqlite_sequence.entity = entity_id ]
        db2 == IF Truthy(string_attrs)
               THEN executemany(db1, "attribute_string", entity_id, string_attrs.dict,
                                items(string_attrs))
               ELSE db1
        db3 == IF Truthy(int_attrs)
               THEN executemany(db2, "attribute_int", entity_id, int_attrs.dict,
                                items(int_attrs))
               ELSE db2
        call == [ call |-> "insert_entity", entity_type |-> entity_type,
                  string_attrs |-> string_attrs, int_attrs |-> int_attrs,
                  value |-> entity_id ]
    IN [ db3 EXCEPT !.calls = Append(@, call), !.returned = call ]

\* the attributes dict after the rows of one table have been assigned to it
RECURSIVE fetchall_into(_, _, _, _)
fetchall_into(attributes, rows, entity_id, type) ==
    IF rows = << >> THEN attributes
    ELSE fetchall_into(IF Head(rows).entity_id = entity_id
                       THEN SetItem(attributes, Head(rows).attribute_name,
                                    IF type = "str" THEN PyStr(Head(rows).attribute_value)
                                    ELSE PyInt(Head(rows).attribute_value))
                       ELSE attributes,
                       Tail(rows), entity_id, type)

\* a get_entity that makes up an entity for an id it does not find
get_entity_always(db, entity_id) ==
    [ found |-> TRUE, id |-> entity_id, entity_type |-> "", created_at |-> "",
      attributes |-> << >> ]

\* get_entity: None, or the entity row with its attributes in one dict
get_entity(db, entity_id) ==
    LET entity_rows == SelectSeq(db.entity, LAMBDA row : row.id = entity_id)
    IN IF entity_rows = << >> THEN [ found |-> FALSE ]
       ELSE LET entity_row == Head(entity_rows)
            IN [ found |-> TRUE,
                 id |-> entity_row.id,
                 entity_type |-> entity_row.entity_type,
                 created_at |-> entity_row.created_at,
                 attributes |->
                     fetchall_into(fetchall_into(<< >>, db.attribute_string, entity_id, "str"),
                                   db.attribute_int, entity_id, "int") ]

\* the ids a caller passes to get_entity
EntityIds == 0..(MaxInserts + 1)

InitEva ==
    /\ files = [ p \in Paths |-> NoFile ]
    /\ tx = NoTx
    /\ run = Idle
    /\ nruns = 0
    /\ outcome = "none"
    /\ lost = "none"
    /\ result = NoResult
    /\ benchmark = NoBenchmark
    /\ locust = NoLocust
    /\ eva = create_eva_schema

InsertEntity ==
    /\ eva.schema
    /\ Len(eva.calls) < MaxInserts
    /\ \E entity_type \in EntityTypes, string_attrs \in Dicts(StringValues),
          int_attrs \in Dicts(IntValues), created_at \in Timestamps :
          eva' = insert_entity(eva, entity_type, string_attrs, int_attrs, created_at)
    /\ UNCHANGED << files, tx, run, nruns, outcome, lost, result, benchmark, locust >>

GetEntity ==
    /\ eva.schema
    /\ \E entity_id \in EntityIds :
          eva' = [ eva EXCEPT !.returned = [ call |-> "get_entity", entity_id |-> entity_id,
                                             value |-> get_entity(eva, entity_id) ] ]
    /\ UNCHANGED << files, tx, run, nruns, outcome, lost, result, benchmark, locust >>

NextEva ==
    \/ InsertEntity
    \/ GetEntity

SpecEva == InitEva /\ [][NextEva]_vars

\* the items of a dict whose values are wrapped by PyStr or PyInt
ItemsOf(arg, type) ==
    { << name, IF type = "str" THEN PyStr(arg.dict[name]) ELSE PyInt(arg.dict[name]) >> :
        name \in DOMAIN arg.dict }

\* get_entity has returned what the insert_entity call c stored
RoundTrip(c, value) ==
    /\ value.found
    /\ value.id = c.value
    /\ value.entity_type = c.entity_type
    /\ { << name, value.attributes[name] >> : name \in DOMAIN value.attributes }
           = ItemsOf(c.string_attrs, "str") \cup ItemsOf(c.int_attrs, "int")

\* the last call was get_entity on the id that call c returned
GotEntityOf(c) ==
    /\ eva.schema
    /\ eva.returned.call = "get_entity"
    /\ eva.returned.entity_id = c.value

\* C21: for any entity inserted with insert_entity(entity_type, S, I), either
\* map possibly absent, get_entity on the returned id yields the same id and
\* entity_type and an attributes map that is exactly the union of S and I.
C21_GetEntityRoundTrip ==
    eva.schema =>
        \A k \in DOMAIN eva.calls :
            GotEntityOf(eva.calls[k]) => RoundTrip(eva.calls[k], eva.returned.value)

\* the same for calls whose two maps share no attribute name
RoundTripOfDisjointMaps ==
    eva.schema =>
        \A k \in DOMAIN eva.calls :
            ( /\ GotEntityOf(eva.calls[k])
              /\ DOMAIN eva.calls[k].string_attrs.dict
                     \cap DOMAIN eva.calls[k].int_attrs.dict = {} )
                => RoundTrip(eva.calls[k], eva.returned.value)

\* the ids insert_entity has returned
ReturnedIds == { eva.calls[k].value : k \in DOMAIN eva.calls }

\* C22: get_entity for an id that insert_entity never returned gives None,
\* raises nothing, and leaves the entity and attribute tables as they were,
\* after any sequence of earlier inserts.
C22_GetMissingEntityIsNone ==
    [][ ( /\ eva.schema
          /\ eva'.returned.call = "get_entity"
          /\ eva'.returned.entity_id \notin ReturnedIds )
            => /\ ~ eva'.returned.value.found
               /\ eva'.entity = eva.entity
               /\ eva'.attribute_string = eva.attribute_string
               /\ eva'.attribute_int = eva.attribute_int
               /\ eva'.sqlite_sequence = eva.sqlite_sequence ]_vars

\* after an insert with attributes, get_entity was called with an unknown id
C22_Witness ==
    /\ eva.schema
    /\ eva.attribute_string # << >>
    /\ eva.returned.call = "get_entity"
    /\ eva.returned.entity_id \notin ReturnedIds
    /\ ~ eva.returned.value.found

\* C23: on a new EVA schema the k-th call of insert_entity returns k,
\* whatever the entity types and attributes of the calls.
C23_InsertReturnsCallNumber ==
    eva.schema => \A k \in DOMAIN eva.calls : eva.calls[k].value = k

\* two calls with different entity types, the second one with attributes
C23_Witness ==
    /\ eva.schema
    /\ Len(eva.calls) = 2
    /\ eva.calls[1].entity_type # eva.calls[2].entity_type
    /\ Truthy(eva.calls[2].string_attrs)
    /\ Truthy(eva.calls[2].int_attrs)
    /\ eva.calls[2].value = 2

(***************************************************************************)
(* locust/inc_write_only.py: IncrementalWriteUser.                         *)
(***************************************************************************)
DEFAULT_PERIOD_RUNS == 300

\* writes of the final configuration the model follows
MaxFinalWrites == 2

INC_WRITE_ONLY == "inc_write_only.py"

\* the draws of uuid.uuid4().hex, random.uniform(0, 1000) and random.randint(1, 10000)
Uuid4Draws == { "00000000000000000000000000000001", "00000000000000000000000000000002" }

UniformDraws == { 500 }

RandintDraws == { 1 }

\* get_attribute_config: << numeric_attr_count, string_attr_count >>
get_attribute_config(task_count, period_runs) ==
    LET period == task_count \div period_runs
    IN IF period = 0 THEN << 0, 0 >>
       ELSE IF 1 <= period /\ period <= 6 THEN << period, 0 >>
       ELSE IF 7 <= period /\ period <= 12 THEN << 0, period - 6 >>
       ELSE << 6, 6 >>

\* generate_attributes: None (no dict) for a count of 0
generate_attributes(numeric_count, string_count, uniform, randint) ==
    [ numeric_annotations |->
          [ given |-> numeric_count > 0,
            dict |-> [ name \in { "numeric_attr_" \o ToString(i) : i \in 1..numeric_count }
                         |-> uniform ] ],
      string_annotations |->
          [ given |-> string_count > 0,
            dict |-> [ name \in { "string_attr_" \o ToString(i) : i \in 1..string_count }
                         |-> "value_" \o ToString(randint) ] ] ]

\* create_entity_request: the annotation keys are left out when the dict is None or empty
create_entity_request(creator_address, numeric_annotations, string_annotations, uuid4, expires_in) ==
    [ key |-> "0x" \o uuid4, expiresIn |-> expires_in, payload |-> "base64:urandom",
      contentType |-> "application/octet-stream", ownerAddress |-> creator_address,
      stringAnnotations |-> IF Truthy(string_annotations) THEN string_annotations
                            ELSE NoDict,
      numericAnnotations |-> IF Truthy(numeric_annotations) THEN numeric_annotations
                             ELSE NoDict ]

\* write_entity: the user after the task and the request it has posted
write_entity(user, uuid4, expires_in, uniform, randint) ==
    LET task_count == user.task_count + 1
        config == get_attribute_config(task_count, user.period_runs)
        attributes == generate_attributes(config[1], config[2], uniform, randint)
    IN [ user |-> [ user EXCEPT !.task_count = task_count ],
         request |-> [ method |-> "POST", path |-> "/entities",
                       name |-> "write_entity_n" \o ToString(config[1])
                                    \o "_s" \o ToString(config[2]),
                       body |-> create_entity_request(user.creator_address,
                                                      attributes.numeric_annotations,
                                                      attributes.string_annotations,
                                                      uuid4, expires_in) ] ]

InitIncremental ==
    /\ files = [ p \in Paths |-> NoFile ]
    /\ tx = NoTx
    /\ run = Idle
    /\ nruns = 0
    /\ outcome = "none"
    /\ lost = "none"
    /\ result = NoResult
    /\ benchmark = NoBenchmark
    /\ eva = NoEva
    /\ locust = [ file |-> INC_WRITE_ONLY, user |-> NotStarted, request |-> [ method |-> None ] ]

\* IncrementalWriteUser.on_start
OnStartIncremental ==
    /\ locust.file = INC_WRITE_ONLY
    /\ ~ locust.user.started
    /\ locust' = [ locust EXCEPT !.user = [ started |-> TRUE, task_count |-> 0,
                                            period_runs |-> DEFAULT_PERIOD_RUNS,
                                            creator_address |-> DEFAULT_CREATOR_ADDRESS ] ]
    /\ UNCHANGED << files, tx, run, nruns, outcome, lost, result, benchmark, eva >>

\* the task of IncrementalWriteUser, once per second
WriteEntity ==
    /\ locust.file = INC_WRITE_ONLY
    /\ locust.user.started
    /\ locust.user.task_count < 13 * locust.user.period_runs + MaxFinalWrites
    /\ \E uuid4 \in Uuid4Draws, expires_in \in TtlDraws, uniform \in UniformDraws,
          randint \in RandintDraws :
          LET written == write_entity(locust.user, uuid4, expires_in, uniform, randint)
          IN locust' = [ locust EXCEPT !.user = written.user, !.request = written.request ]
    /\ UNCHANGED << files, tx, run, nruns, outcome, lost, result, benchmark, eva >>

NextIncremental ==
    \/ OnStartIncremental
    \/ WriteEntity

SpecIncremental == InitIncremental /\ [][NextIncremental]_vars

\* the configurations in the order of the progression, from period 0
Progression(period) ==
    IF period = 0 THEN << 0, 0 >>
    ELSE IF period <= 6 THEN << period, 0 >>
    ELSE IF period <= 12 THEN << 0, period - 6 >>
    ELSE << 6, 6 >>

\* the last write was the i-th of the user and carried the configuration config
WroteWith(i, config) ==
    /\ locust.user.started
    /\ locust.user.task_count = i
    /\ locust.request.method = "POST"
    /\ locust.request.name = "write_entity_n" \o ToString(config[1]) \o "_s" \o ToString(config[2])
    /\ Cardinality(DOMAIN locust.request.body.numericAnnotations.dict) = config[1]
    /\ Cardinality(DOMAIN locust.request.body.stringAnnotations.dict) = config[2]

\* C25: an IncrementalWriteUser goes through (0,0), (1,0)..(6,0), (0,1)..(0,6)
\* and then (6,6) forever, and uses every configuration before the final one
\* for exactly period_runs (300) consecutive writes, starting with its first
\* write: the i-th write carries the configuration of period (i - 1) div 300.
C25_EachConfigurationForPeriodRuns ==
    (locust.user.started /\ locust.user.task_count >= 1) =>
        WroteWith(locust.user.task_count,
                  Progression((locust.user.task_count - 1) \div DEFAULT_PERIOD_RUNS))

\* what the code does: the i-th write carries the configuration of period i div 300
WriteUsesPeriodOfTaskCount ==
    (locust.user.started /\ locust.user.task_count >= 1) =>
        WroteWith(locust.user.task_count,
                  Progression(locust.user.task_count \div DEFAULT_PERIOD_RUNS))

\* the user has reached the final configuration
FinalConfigurationReached == WroteWith(13 * DEFAULT_PERIOD_RUNS + 1, << 6, 6 >>)

====
